---- MODULE Spec2Model ----
(***************************************************************************)
(* Model of the kitsune TAS input recording / playback engine.             *)
(*                                                                         *)
(* Three copies of the engine live in the source:                          *)
(*   "direct" : src/unnamed/part_000        (direct-state adapter, hooked) *)
(*   "event"  : src/tas.js lines 1-440      (KeyboardEvent adapter, hooked) *)
(*   "legacy" : src/tas.js lines 442-1044   (direct-state, no tick hook)   *)
(* The variable `variant` says which copy a behaviour runs.                *)
(***************************************************************************)
EXTENDS Integers, Sequences, FiniteSets, TLC

VARIABLES
    variant,          \* which copy of the engine is loaded
    VvDefined,        \* host: Vv.prototype.tick exists
    WvReady,          \* host: Wv.Jc.Dk (input manager of a running game) exists
    Ea,               \* host: Ih.Ea, direction slot -> mapped key codes
    Ob,               \* host: Ih.Ob, the set of key codes whose entry is true
    inputManager,     \* TAS._inputManager is set
    keyboardHandler,  \* TAS._keyboardHandler is set
    recording,        \* TAS._recording
    isRecording,      \* TAS._isRecording
    isPlaying,        \* TAS._isPlaying
    playbackIndex,    \* TAS._playbackIndex
    frameCount,       \* TAS._frameCount
    tickHooked,       \* TAS._tickHooked
    tickWraps,        \* host: how many TAS wrappers Vv.prototype.tick is inside
    lastOp,           \* history: the last operation, its argument and result
    run,              \* history: host ticks counted since the last start call
    tickApplied,      \* history: the records the last host tick applied
    tickLog,          \* history: what ran in the last host tick, and its result
    heap,             \* the lists (JavaScript arrays) in memory, by identity
    recRef,           \* the identity of the list TAS._recording refers to
    builderSeq,       \* sequence(): the identity of the builder's seq, 0 if none
    currentFrame,     \* sequence(): the builder's currentFrame
    chain,            \* history: the hold / wait calls made on the builder
    held,             \* history: the list last returned to the caller
    timers,           \* the callbacks handed to setTimeout that have not run yet
    worker,           \* the service worker's cacheResources call and its messages
    caches,           \* the browser's cache storage: names and cache objects
    boot              \* the script's auto-initialisation: tryInit and its timer

vars == <<variant, VvDefined, WvReady, Ea, Ob, inputManager, keyboardHandler,
          recording, isRecording, isPlaying, playbackIndex, frameCount,
          tickHooked, tickWraps, lastOp, run, tickApplied, tickLog,
         heap, recRef, builderSeq, currentFrame, chain, held, timers, worker,
         caches, boot>>

hostVars == <<variant, VvDefined, WvReady, Ea>>
bindVars == <<inputManager, keyboardHandler>>
sessionVars == <<recording, isRecording, isPlaying, playbackIndex, frameCount>>
objVars ==
    <<heap, recRef, builderSeq, currentFrame, chain, held, timers, worker, caches,
      boot>>

-----------------------------------------------------------------------------
(* Bounds of the model.                                                    *)

\* longest sequence handed to startPlayback / importRecording
MaxSeqLen == 2
\* largest value the recorder's frame counter takes
MaxFrame == 2
\* largest frame count handed to the builder's hold / wait
MaxHold == 2
\* most hold / wait calls made on one builder
MaxChain == 2

\* the lists a behaviour may allocate, the session's first list included
MaxObjects == 3

\* the releases of one slot or key that may be pending at once
MaxTimers == 2

\* the resources of the service worker's manifest
MaxResources == 3

\* the 'clear-cache' requests made in one behaviour
MaxClears == 1

-----------------------------------------------------------------------------
(* Constants of the program.                                               *)

\* the argument of the first tryInit call
InitAttempts == 10

Variants == {"direct", "event", "legacy"}

\* TAS.DIRECTION
DIRECTION == ("LEFT" :> 0) @@ ("RIGHT" :> 1) @@ ("UP" :> 2) @@ ("DOWN" :> 3)
             @@ ("ACTION" :> 4) @@ ("CANCEL" :> 5)
Slots == 0..5

\* TAS.KEYS of the direct-state copies
KEYS == [LEFT |-> 37, RIGHT |-> 39, UP |-> 38, DOWN |-> 40, A |-> 65, D |-> 68,
         W |-> 87, S |-> 83, SPACE |-> 32, ENTER |-> 13, BACKSPACE |-> 8,
         DELETE |-> 46, ONE |-> 49]
\* TAS.KEYS of the event-dispatch copy
EventKEYS == [LEFT |-> 37, RIGHT |-> 39, UP |-> 38, DOWN |-> 40, SPACE |-> 32,
              ENTER |-> 13, BACKSPACE |-> 8]

KeyCodes == {KEYS[n] : n \in DOMAIN KEYS}
EventKeyCodes == {EventKEYS[n] : n \in DOMAIN EventKEYS}

\* fallbackKeys of pressDirection
fallbackPressKeys == [d \in Slots |-> <<37, 39, 38, 40, 32, 8>>[d + 1]]
\* fallbackKeys of releaseDirection
fallbackReleaseKeys ==
    [d \in Slots |-> << <<37, 65>>, <<39, 68>>, <<38, 87>>, <<40, 83>>,
                        <<32, 13>>, <<8, 49, 46>> >>[d + 1]]

\* The host's mapping as the source documents it: every slot mapped.
DefaultEa == [d \in Slots |-> [has |-> TRUE, keys |-> fallbackReleaseKeys[d]]]
\* A host that exposes no mapping.
MissingEa == [d \in Slots |-> [has |-> FALSE, keys |-> <<>>]]
\* A host whose mapping for slot 0 is an empty list.
EmptyLeftEa == [DefaultEa EXCEPT ![0] = [has |-> TRUE, keys |-> <<>>]]
\* A host whose player has bound the action slot to the Z key alone.
RemappedEa == [DefaultEa EXCEPT ![4] = [has |-> TRUE, keys |-> <<90>>]]

Range(s) == {s[i] : i \in 1..Len(s)}

-----------------------------------------------------------------------------
(* Input vectors and frame records.                                        *)

Vec(l, r, u, d, a, c) ==
    [left |-> l, right |-> r, up |-> u, down |-> d, action |-> a, cancel |-> c]

AllVectors ==
    {Vec(l, r, u, d, a, c) : l \in BOOLEAN, r \in BOOLEAN, u \in BOOLEAN,
                             d \in BOOLEAN, a \in BOOLEAN, c \in BOOLEAN}

NoInput == Vec(FALSE, FALSE, FALSE, FALSE, FALSE, FALSE)

\* state.left, state.right, ... by slot number
Flag(state, d) ==
    CASE d = 0 -> state.left
      [] d = 1 -> state.right
      [] d = 2 -> state.up
      [] d = 3 -> state.down
      [] d = 4 -> state.action
      [] d = 5 -> state.cancel

\* a frame record as the event-dispatch recorder and the builder make it
Rec(f, v) ==
    [frame |-> f, left |-> v.left, right |-> v.right, up |-> v.up,
     down |-> v.down, action |-> v.action, cancel |-> v.cancel]

-----------------------------------------------------------------------------
(* Input adapter.  Each operator gives the host's pressed-key set after    *)
(* the call, from the set H before it.                                     *)

\* The host's keyboard listener, reached by document.dispatchEvent.
\* the entry Ob[undefined], which no slot of the host reads
UndefinedKey == -1

dispatchKeyEvent(H, type, keyCode) ==
    IF ~WvReady THEN H
    ELSE IF type = "keydown" THEN H \cup {keyCode} ELSE H \ {keyCode}

pressKey(H, keyCode) ==
    IF variant = "event" THEN dispatchKeyEvent(H, "keydown", keyCode)
    ELSE IF ~keyboardHandler THEN H
    ELSE H \cup {keyCode}

releaseKey(H, keyCode) ==
    IF variant = "event" THEN dispatchKeyEvent(H, "keyup", keyCode)
    ELSE IF ~keyboardHandler THEN H
    ELSE H \ {keyCode}

RECURSIVE releaseKeys(_, _, _)
releaseKeys(H, keys, i) ==
    IF i > Len(keys) THEN H ELSE releaseKeys(releaseKey(H, keys[i]), keys, i + 1)

\* the values of EventKEYS in the order of Object.keys
EventKeyOrder == <<37, 39, 38, 40, 32, 13, 8>>

\* Ob[Number(key)] = false for every key of Ob: the entry under "undefined"
\* is not reached, Number("undefined") being NaN
releaseAllKeys(H) ==
    IF variant = "event" THEN releaseKeys(H, EventKeyOrder, 1)
    ELSE IF ~keyboardHandler THEN H
    ELSE H \cap {UndefinedKey}

pressDirection(H, direction) ==
    IF ~keyboardHandler THEN H
    ELSE IF variant = "legacy"
    THEN IF Ea[direction].has
         \* keyMappings[direction][0] of an empty list is undefined
         THEN IF Len(Ea[direction].keys) > 0
              THEN pressKey(H, Ea[direction].keys[1])
              ELSE pressKey(H, UndefinedKey)
         ELSE H
    ELSE IF Ea[direction].has /\ Len(Ea[direction].keys) > 0
         THEN pressKey(H, Ea[direction].keys[1])
         ELSE pressKey(H, fallbackPressKeys[direction])

releaseDirection(H, direction) ==
    IF ~keyboardHandler THEN H
    ELSE IF variant = "legacy"
    THEN IF Ea[direction].has THEN releaseKeys(H, Ea[direction].keys, 1) ELSE H
    ELSE IF Ea[direction].has /\ Len(Ea[direction].keys) > 0
         THEN releaseKeys(H, Ea[direction].keys, 1)
         ELSE releaseKeys(H, fallbackReleaseKeys[direction], 1)

\* the shortcuts left(), right(), up(), down(), action(), cancel() by slot
pressSlot(H, d) ==
    IF variant = "event"
    THEN pressKey(H, <<EventKEYS.LEFT, EventKEYS.RIGHT, EventKEYS.UP,
                       EventKEYS.DOWN, EventKEYS.ENTER, EventKEYS.BACKSPACE>>[d + 1])
    ELSE IF variant = "direct" /\ d = DIRECTION["ACTION"]
    THEN pressKey(H, 13)
    ELSE pressDirection(H, d)

\* the shortcuts releaseLeft(), releaseRight(), ..., releaseCancel() by slot
releaseSlot(H, d) ==
    IF variant = "event"
    THEN releaseKey(H, <<EventKEYS.LEFT, EventKEYS.RIGHT, EventKEYS.UP,
                         EventKEYS.DOWN, EventKEYS.ENTER, EventKEYS.BACKSPACE>>[d + 1])
    ELSE IF variant = "direct" /\ d = DIRECTION["ACTION"]
    THEN releaseKey(H, 13)
    ELSE releaseDirection(H, d)

RECURSIVE pressFlags(_, _, _)
pressFlags(H, state, d) ==
    IF d > 5 THEN H
    ELSE pressFlags(IF Flag(state, d) THEN pressSlot(H, d) ELSE H, state, d + 1)

\* A setInputState that presses first and then releases what was held before
\* the call, instead of releasing everything first.
setInputStateReleaseAfter(H, state) == pressFlags(H, state, 0) \ H

setInputState(H, state) == pressFlags(releaseAllKeys(H), state, 0)

\* The keys the host reads slot d from.
HostSlotKeys(d) ==
    IF Ea[d].has THEN Range(Ea[d].keys) ELSE Range(fallbackReleaseKeys[d])

\* Kh.tb[d]: slot d is asserted in the host
SlotAsserted(H, d) == HostSlotKeys(d) \cap H # {}

\* getInputState() when the input manager is set
getInputState(H) ==
    Vec(SlotAsserted(H, 0), SlotAsserted(H, 1), SlotAsserted(H, 2),
        SlotAsserted(H, 3), SlotAsserted(H, 4), SlotAsserted(H, 5))

-----------------------------------------------------------------------------
(* Serialized sequences.  A text is a sequence of tokens; JSON.stringify   *)
(* writes one, JSON.parse reads one back or throws.                        *)

\* the numbers a text of the model can hold
FrameValues == 0..MaxFrame

\* the keys of a record in the order the recorder writes them
FieldOrder == <<"frame", "left", "right", "up", "down", "action", "cancel", "hasInput">>

valueToken(key, value) ==
    IF key = "frame" THEN ToString(value)
    ELSE IF value THEN "true" ELSE "false"

RECURSIVE stringifyMembers(_, _)
stringifyMembers(rec, i) ==
    IF i > Len(FieldOrder) THEN <<>>
    ELSE (IF FieldOrder[i] \in DOMAIN rec
          THEN <<FieldOrder[i], valueToken(FieldOrder[i], rec[FieldOrder[i]])>>
          ELSE <<>>) \o stringifyMembers(rec, i + 1)

RECURSIVE stringifyElements(_, _)
stringifyElements(seq, i) ==
    IF i > Len(seq) THEN <<>>
    ELSE <<"{">> \o stringifyMembers(seq[i], 1) \o <<"}">>
         \o stringifyElements(seq, i + 1)

JSONstringify(seq) == <<"[">> \o stringifyElements(seq, 1) \o <<"]">>

parseError == [ok |-> FALSE, val |-> <<>>, next |-> 0]

isNumberToken(tok) == \E n \in FrameValues : ToString(n) = tok
isValueToken(tok) == tok \in {"true", "false"} \/ isNumberToken(tok)

tokenValue(tok) ==
    IF tok = "true" THEN TRUE
    ELSE IF tok = "false" THEN FALSE
    ELSE CHOOSE n \in FrameValues : ToString(n) = tok

RECURSIVE parseMembers(_, _, _)
parseMembers(text, i, acc) ==
    IF i > Len(text) THEN parseError
    ELSE IF text[i] = "}" THEN [ok |-> TRUE, val |-> acc, next |-> i + 1]
    ELSE IF i + 1 > Len(text) \/ text[i] \notin Range(FieldOrder)
            \/ ~isValueToken(text[i + 1])
    THEN parseError
    ELSE parseMembers(text, i + 2, (text[i] :> tokenValue(text[i + 1])) @@ acc)

\* A parser that collects the records of a list last one first.
RECURSIVE parseElementsReversed(_, _, _)
parseElementsReversed(text, i, acc) ==
    IF i > Len(text) THEN parseError
    ELSE IF text[i] = "]"
    THEN IF i = Len(text) THEN [ok |-> TRUE, val |-> acc, next |-> i + 1]
         ELSE parseError
    ELSE IF text[i] = "{"
    THEN LET m == parseMembers(text, i + 1, <<>>)
         IN  IF m.ok THEN parseElementsReversed(text, m.next, <<m.val>> \o acc)
             ELSE parseError
    ELSE parseError

RECURSIVE parseElements(_, _, _)
parseElements(text, i, acc) ==
    IF i > Len(text) THEN parseError
    ELSE IF text[i] = "]"
    THEN IF i = Len(text) THEN [ok |-> TRUE, val |-> acc, next |-> i + 1]
         ELSE parseError
    ELSE IF text[i] = "{"
    THEN LET m == parseMembers(text, i + 1, <<>>)
         IN  IF m.ok THEN parseElements(text, m.next, Append(acc, m.val))
             ELSE parseError
    ELSE parseError

\* The value null, which is no list: kept as a tuple holding its tag so that
\* it can be compared with the lists TAS._recording otherwise holds.
JSnull == << [js |-> "null"] >>

\* JSON.parse of a text: [ok |-> it did not throw, val |-> the value]
JSONparse(text) ==
    IF Len(text) = 0 THEN parseError
    ELSE IF text = <<"null">> THEN [ok |-> TRUE, val |-> JSnull, next |-> 2]
    ELSE IF text[1] # "[" THEN parseError
    ELSE parseElements(text, 2, <<>>)

-----------------------------------------------------------------------------
(* The inputs the operations are called with.                              *)

\* records a caller passes in; the frame field need not be the position
InputLeft == Rec(1, Vec(TRUE, FALSE, FALSE, FALSE, FALSE, FALSE))
InputRightAction == Rec(0, Vec(FALSE, TRUE, FALSE, FALSE, TRUE, FALSE))

\* the two records in turn, k of them, starting with first
Alternating(first, second, k) ==
    [i \in 1..k |-> IF i % 2 = 1 THEN first ELSE second]

\* the lists a caller passes in: the empty one and the alternating ones
InputSeqs == {Alternating(InputLeft, InputRightAction, k) : k \in 0..MaxSeqLen}

\* a text JSON.parse throws on
MalformedText == <<"[", "{", "frame">>

\* the texts a caller passes in: a list of two records, the empty list, a broken one
InputTexts ==
    { JSONstringify(<<InputLeft, InputRightAction>>),
      JSONstringify(<<>>),
      MalformedText }

\* the keys held before the adapter is called, and the ones pressed by hand
PriorKeys == {KEYS.A, KEYS.LEFT, KEYS.ENTER}

-----------------------------------------------------------------------------
(* History variables.                                                      *)

Op(op, how, arg, ok) == [op |-> op, how |-> how, arg |-> arg, ok |-> ok]
OtherOp == Op("other", "none", <<>>, TRUE)

NoRun == [kind |-> "none", ticks |-> 0, seq |-> <<>>, hooked |-> FALSE, bound |-> FALSE]

\* ticks are counted up to one past the longest sequence's exhaustion
RunCap == (IF MaxSeqLen > MaxFrame THEN MaxSeqLen ELSE MaxFrame) + 2

\* A host tick passes: one more tick in the run; the run stays hooked (bound)
\* only if the hook was installed (the input manager set) at every tick of it.
RunTick ==
    IF run.kind \in {"rec", "play"} /\ run.ticks < RunCap
    THEN [run EXCEPT !.ticks = @ + 1, !.bound = @ /\ inputManager,
                     !.hooked = @ /\ tickHooked]
    ELSE NoRun

\* what the host's own tick function may return to its caller
TickResults == {"undefined", "value"}

\* no host tick was the last step
NoTick == [calls |-> <<>>, original |-> "undefined", observed |-> "undefined"]

\* the slots and keys the taps of the model are made on
TapSlots == {DIRECTION["LEFT"], DIRECTION["ACTION"]}
TapKeys == {EventKEYS.ENTER, EventKEYS.SPACE}

\* the callbacks a tap hands to setTimeout
Pending ==
    {[op |-> "releaseDirection", arg |-> d] : d \in TapSlots}
    \cup {[op |-> "releaseKey", arg |-> k] : k \in TapKeys}

\* the service worker before any request and before its activation
NoRequest ==
    [pc |-> "idle", next |-> 1, cached |-> 0, failed |-> 0, log |-> <<>>,
     sent |-> <<>>, handle |-> 0, clears |-> 0, act |-> "installed",
     names |-> {}, todo |-> {}]

\* A cache name is the sequence of its parts.
CACHE_NAME == <<"kitsune-", "offline-v4">>
\* the cache of an earlier version, and a cache of another origin library
OldCacheName == <<"kitsune-", "offline-v3">>
OtherCacheName == <<"workbox-", "precache">>
CacheNames == {CACHE_NAME, OldCacheName, OtherCacheName}

\* no auto-initialisation under way
NoBoot ==
    [stage |-> "none", pending |-> FALSE, attempts |-> 0, inits |-> 0,
     hooks |-> 0, ok |-> FALSE]

\* an empty cache storage: no name refers to a cache object
NoCaches == [map |-> [n \in CacheNames |-> 0], objs |-> <<>>]

\* nothing returned to the caller yet
NoHeld == [ref |-> 0, val |-> <<>>, from |-> "none"]

\* Spec and SpecAdapter take lists as values: one list, no builder.
NoObjects ==
    /\ heap = << <<>> >>
    /\ recRef = 1
    /\ builderSeq = 0
    /\ currentFrame = 0
    /\ chain = <<>>
    /\ held = NoHeld
    /\ timers = [t \in Pending |-> 0]
    /\ worker = NoRequest
    /\ caches = NoCaches
    /\ boot = NoBoot

StartRun(kind, seq) ==
    [kind |-> kind, ticks |-> 0, seq |-> seq, hooked |-> TRUE, bound |-> TRUE]

-----------------------------------------------------------------------------
(* Session controller, recorder and player: the values after each call.   *)

\* A _hookGameTick without its first line, the return when already hooked.
hookWrapsUnguarded ==
    IF variant = "legacy" THEN tickWraps
    ELSE IF VvDefined THEN tickWraps + 1
    ELSE tickWraps

\* the wrappers around Vv.prototype.tick after _hookGameTick()
hookWraps ==
    IF variant = "legacy" THEN tickWraps
    ELSE IF tickHooked THEN tickWraps
    ELSE IF VvDefined THEN tickWraps + 1
    ELSE tickWraps

\* what _hookGameTick() returns, on every path
hookGameTickReturns == "undefined"

\* TAS._tickHooked after _hookGameTick()
\* a _hookGameTick() that gives up without looking for Vv.prototype.tick
hookGameTickGivesUp == tickHooked

hookGameTick ==
    IF variant = "legacy" THEN tickHooked
    ELSE IF tickHooked THEN TRUE
    ELSE VvDefined

\* the record recordFrame pushes
frameRecord ==
    LET state == getInputState(Ob)
    IN  IF variant = "direct"
        THEN Rec(frameCount, state)
             @@ ("hasInput" :> (state.left \/ state.right \/ state.up \/ state.down
                                \/ state.action \/ state.cancel))
        ELSE Rec(frameCount, state)

\* a recordFrame() without the test of _isRecording
recordFrameUnguarded ==
    [recording |-> IF inputManager THEN Append(recording, frameRecord)
                   ELSE recording,
     frameCount |-> frameCount + 1]

\* a recordFrame() that counts a frame only when it appends a record
recordFrameCountsAppended ==
    IF ~isRecording THEN [recording |-> recording, frameCount |-> frameCount]
    ELSE [recording |-> IF inputManager THEN Append(recording, frameRecord)
                        ELSE recording,
          frameCount |-> IF inputManager THEN frameCount + 1 ELSE frameCount]

recordFrame ==
    IF ~isRecording THEN [recording |-> recording, frameCount |-> frameCount]
    ELSE [recording |-> IF inputManager THEN Append(recording, frameRecord)
                        ELSE recording,
          frameCount |-> frameCount + 1]

\* A stopRecording that ends a playback under way as well.
stopRecordingEndsPlayback ==
    [isRecording |-> FALSE, isPlaying |-> FALSE, playbackIndex |-> 0,
     Ob |-> releaseAllKeys(Ob), result |-> recording]

\* stopRecording(): the fields after the call and the list it returns
stopRecording ==
    [isRecording |-> FALSE, isPlaying |-> isPlaying,
     playbackIndex |-> playbackIndex, Ob |-> Ob, result |-> recording]

\* A stopPlayback that leaves the keys as they are.
stopPlaybackNoRelease ==
    [isPlaying |-> FALSE, playbackIndex |-> 0, Ob |-> Ob, applied |-> <<>>]

stopPlayback ==
    [isPlaying |-> FALSE, playbackIndex |-> 0, Ob |-> releaseAllKeys(Ob),
     applied |-> <<>>]

\* A player that stops on the tick that applies the last record.
playbackFrameStopEarly(rec) ==
    IF ~isPlaying
    THEN [isPlaying |-> isPlaying, playbackIndex |-> playbackIndex, Ob |-> Ob,
          applied |-> <<>>]
    ELSE IF playbackIndex + 1 >= Len(rec)
    THEN [stopPlayback EXCEPT !.applied =
              IF playbackIndex < Len(rec) THEN <<rec[playbackIndex + 1]>> ELSE <<>>]
    ELSE [isPlaying |-> TRUE, playbackIndex |-> playbackIndex + 1,
          Ob |-> setInputState(Ob, rec[playbackIndex + 1]),
          applied |-> <<rec[playbackIndex + 1]>>]

\* A player that looks the record up by its frame field when one matches.
playbackFrameByField(rec) ==
    LET hits == {i \in 1..Len(rec) : rec[i].frame = playbackIndex}
        pick == IF hits # {} THEN CHOOSE i \in hits : TRUE ELSE playbackIndex + 1
    IN  IF ~isPlaying
        THEN [isPlaying |-> isPlaying, playbackIndex |-> playbackIndex, Ob |-> Ob,
              applied |-> <<>>]
        ELSE IF playbackIndex >= Len(rec) THEN stopPlayback
        ELSE [isPlaying |-> TRUE, playbackIndex |-> playbackIndex + 1,
              Ob |-> setInputState(Ob, rec[pick]),
              applied |-> <<rec[pick]>>]

\* playbackFrame() when TAS._recording is rec
\* a playbackFrame() that ends playback only when the cursor is exactly at
\* the end of the sequence
playbackFrameExactEnd(rec) ==
    IF ~isPlaying
    THEN [isPlaying |-> isPlaying, playbackIndex |-> playbackIndex, Ob |-> Ob,
          applied |-> <<>>]
    ELSE IF playbackIndex = Len(rec) THEN stopPlayback
    ELSE IF playbackIndex > Len(rec)
    THEN [isPlaying |-> TRUE, playbackIndex |-> playbackIndex + 1, Ob |-> Ob,
          applied |-> <<>>]
    ELSE [isPlaying |-> TRUE, playbackIndex |-> playbackIndex + 1,
          Ob |-> setInputState(Ob, rec[playbackIndex + 1]),
          applied |-> <<rec[playbackIndex + 1]>>]

\* what playbackFrame() returns: true while playback is still active
playbackFrameReturns(rec) == isPlaying /\ playbackIndex < Len(rec)

playbackFrame(rec) ==
    IF ~isPlaying
    THEN [isPlaying |-> isPlaying, playbackIndex |-> playbackIndex, Ob |-> Ob,
          applied |-> <<>>]
    ELSE IF playbackIndex >= Len(rec) THEN stopPlayback
    ELSE [isPlaying |-> TRUE, playbackIndex |-> playbackIndex + 1,
          Ob |-> setInputState(Ob, rec[playbackIndex + 1]),
          applied |-> <<rec[playbackIndex + 1]>>]

playbackRefused ==
    [ok |-> FALSE, recording |-> recording, playbackIndex |-> playbackIndex,
     isPlaying |-> isPlaying, isRecording |-> isRecording, tickHooked |-> tickHooked]

\* A startPlayback that ends the recording before it decodes its argument.
startPlaybackStopsRecordingFirst(how, arg) ==
    LET parsed == IF how = "text" THEN JSONparse(arg)
                  ELSE [ok |-> TRUE, val |-> IF how = "none" THEN recording ELSE arg]
        rec == IF parsed.ok /\ Len(parsed.val) > 0 THEN parsed.val ELSE recording
    IN  IF ~parsed.ok \/ Len(rec) = 0
        THEN [playbackRefused EXCEPT !.isRecording = FALSE]
        ELSE [ok |-> TRUE, recording |-> rec, playbackIndex |-> 0,
              isPlaying |-> TRUE, isRecording |-> FALSE,
              tickHooked |-> hookGameTick]

\* startPlayback(sequence): how is "none" (no argument), "array" or "text"
startPlayback(how, arg) ==
    IF variant = "legacy"
    THEN IF how = "none" \/ Len(arg) = 0 THEN playbackRefused
         ELSE [ok |-> TRUE, recording |-> arg, playbackIndex |-> 0,
               isPlaying |-> TRUE, isRecording |-> isRecording,
               tickHooked |-> tickHooked]
    ELSE LET parsed == IF how = "text" THEN JSONparse(arg)
                       ELSE [ok |-> TRUE,
                             val |-> IF how = "none" THEN recording ELSE arg]
         IN  IF ~parsed.ok THEN playbackRefused
             ELSE LET rec == IF Len(parsed.val) > 0 THEN parsed.val ELSE recording
                  IN  IF Len(rec) = 0 THEN playbackRefused
                      ELSE [ok |-> TRUE, recording |-> rec, playbackIndex |-> 0,
                            isPlaying |-> TRUE, isRecording |-> FALSE,
                            tickHooked |-> hookGameTick]

\* importRecording(data): how is "array" or "text"
importRecording(how, data) ==
    IF how = "array"
    THEN IF variant = "legacy"
         \* JSON.parse of a list coerced to a string throws
         THEN [ok |-> FALSE, recording |-> recording]
         ELSE [ok |-> TRUE, recording |-> data]
    ELSE LET parsed == JSONparse(data)
         IN  IF ~parsed.ok THEN [ok |-> FALSE, recording |-> recording]
             \* this._recording is assigned, then this._recording.length throws
             ELSE IF parsed.val = JSnull THEN [ok |-> FALSE, recording |-> JSnull]
             ELSE [ok |-> TRUE, recording |-> parsed.val]

exportRecording == JSONstringify(recording)

-----------------------------------------------------------------------------
(* The host.                                                               *)

\* The game script loads and the game starts: Vv.prototype.tick and Wv.Jc.Dk
\* exist from here on, and the game's keyboard listener is attached.
HostStart ==
    /\ ~WvReady
    /\ VvDefined' = TRUE
    /\ WvReady' = TRUE
    /\ lastOp' = OtherOp
    /\ tickApplied' = <<>>
    /\ tickLog' = NoTick
    /\ UNCHANGED <<variant, Ea, Ob, bindVars, sessionVars, tickHooked, tickWraps, run>>
    /\ UNCHANGED objVars

\* One call of Vv.prototype.tick, the plain function or the function inside
\* one wrapper.  The original tick runs first; inside the wrapper the recorder
\* callback and then the player callback run.
HostTick ==
    /\ WvReady
    /\ tickWraps \in {0, 1}
    /\ (tickWraps = 1 /\ isRecording) => frameCount < MaxFrame
    /\ LET r == IF tickWraps = 1 THEN recordFrame
                ELSE [recording |-> recording, frameCount |-> frameCount]
           p == IF tickWraps = 1 THEN playbackFrame(r.recording)
                ELSE [isPlaying |-> isPlaying, playbackIndex |-> playbackIndex,
                      Ob |-> Ob, applied |-> <<>>]
       IN  /\ recording' = r.recording
           /\ frameCount' = r.frameCount
           /\ isPlaying' = p.isPlaying
           /\ playbackIndex' = p.playbackIndex
           /\ Ob' = p.Ob
           /\ tickApplied' = p.applied
    /\ \E result \in TickResults :
          tickLog' = [calls |-> <<"originalTick">>
                                \o (IF tickWraps = 1 /\ isRecording
                                    THEN <<"recordFrame">> ELSE <<>>)
                                \o (IF tickWraps = 1 /\ isPlaying
                                    THEN <<"playbackFrame">> ELSE <<>>),
                      original |-> result,
                      observed |-> IF tickWraps = 1 THEN "undefined" ELSE result]
    /\ run' = RunTick
    /\ lastOp' = Op("tick", "none", <<>>, TRUE)
    /\ UNCHANGED <<hostVars, bindVars, isRecording, tickHooked, tickWraps>>
    /\ UNCHANGED objVars

-----------------------------------------------------------------------------
(* Calls of the public API.                                                *)

\* TAS.init()
TASinit ==
    /\ inputManager' = (WvReady \/ inputManager)
    /\ keyboardHandler' = (WvReady \/ keyboardHandler)
    /\ lastOp' = OtherOp
    /\ tickApplied' = <<>>
    /\ tickLog' = NoTick
    /\ UNCHANGED <<hostVars, Ob, sessionVars, tickHooked, tickWraps, run>>
    /\ UNCHANGED objVars

\* TAS._hookGameTick()
HookGameTickCall ==
    /\ variant # "legacy"
    /\ tickHooked' = hookGameTick
    /\ tickWraps' = hookWraps
    /\ lastOp' = Op("hookGameTick", "none", <<hookGameTickReturns>>, TRUE)
    /\ tickApplied' = <<>>
    /\ tickLog' = NoTick
    /\ UNCHANGED <<hostVars, Ob, bindVars, sessionVars, run>>
    /\ UNCHANGED objVars

\* TAS.startRecording()
StartRecording ==
    /\ recording' = <<>>
    /\ isRecording' = TRUE
    /\ frameCount' = 0
    /\ tickHooked' = hookGameTick
    /\ tickWraps' = (IF tickHooked THEN tickWraps ELSE hookWraps)
    /\ run' = StartRun("rec", <<>>)
    /\ lastOp' = Op("startRecording", "none", <<>>, TRUE)
    /\ tickApplied' = <<>>
    /\ tickLog' = NoTick
    /\ UNCHANGED <<hostVars, Ob, bindVars, isPlaying, playbackIndex>>
    /\ UNCHANGED objVars

\* TAS.stopRecording(); the result is this._recording.slice()
StopRecording ==
    /\ isRecording' = stopRecording.isRecording
    /\ isPlaying' = stopRecording.isPlaying
    /\ playbackIndex' = stopRecording.playbackIndex
    /\ Ob' = stopRecording.Ob
    /\ run' = IF run.kind = "rec" THEN [run EXCEPT !.kind = "recDone"] ELSE NoRun
    /\ lastOp' = Op("stopRecording", "array", stopRecording.result, TRUE)
    /\ tickApplied' = <<>>
    /\ tickLog' = NoTick
    /\ UNCHANGED <<hostVars, bindVars, recording, frameCount, tickHooked,
                   tickWraps>>
    /\ UNCHANGED objVars

\* TAS.recordFrame() called by hand
RecordFrameCall ==
    /\ isRecording => frameCount < MaxFrame
    /\ recording' = recordFrame.recording
    /\ frameCount' = recordFrame.frameCount
    /\ run' = NoRun
    /\ lastOp' = Op("recordFrame", "none", <<>>, TRUE)
    /\ tickApplied' = <<>>
    /\ tickLog' = NoTick
    /\ UNCHANGED <<hostVars, Ob, bindVars, isRecording, isPlaying, playbackIndex,
                   tickHooked, tickWraps>>
    /\ UNCHANGED objVars

PlaybackCalls ==
    {[how |-> "none", arg |-> <<>>]}
    \cup {[how |-> "array", arg |-> S] : S \in InputSeqs}
    \cup (IF variant = "legacy" THEN {}
          ELSE {[how |-> "text", arg |-> T] : T \in InputTexts})

\* TAS.startPlayback(sequence)
StartPlayback ==
    /\ \E c \in PlaybackCalls :
          LET res == startPlayback(c.how, c.arg)
          IN  /\ recording' = res.recording
              /\ playbackIndex' = res.playbackIndex
              /\ isPlaying' = res.isPlaying
              /\ isRecording' = res.isRecording
              /\ tickHooked' = res.tickHooked
              /\ tickWraps' = (IF res.ok /\ ~tickHooked THEN hookWraps ELSE tickWraps)
              /\ run' = IF res.ok THEN StartRun("play", res.recording) ELSE NoRun
              /\ lastOp' = Op("startPlayback", c.how,
                               IF c.how = "text" THEN <<>> ELSE c.arg, res.ok)
    /\ tickApplied' = <<>>
    /\ tickLog' = NoTick
    /\ UNCHANGED <<hostVars, Ob, bindVars, frameCount>>
    /\ UNCHANGED objVars

\* TAS.stopPlayback()
StopPlayback ==
    /\ isPlaying' = stopPlayback.isPlaying
    /\ playbackIndex' = stopPlayback.playbackIndex
    /\ Ob' = stopPlayback.Ob
    /\ run' = NoRun
    /\ lastOp' = Op("stopPlayback", "none", <<>>, TRUE)
    /\ tickApplied' = <<>>
    /\ tickLog' = NoTick
    /\ UNCHANGED <<hostVars, bindVars, recording, isRecording, frameCount, tickHooked, tickWraps>>
    /\ UNCHANGED objVars

\* TAS.playbackFrame() called by hand
PlaybackFrameCall ==
    /\ LET p == playbackFrame(recording)
       IN  /\ isPlaying' = p.isPlaying
           /\ playbackIndex' = p.playbackIndex
           /\ Ob' = p.Ob
    /\ run' = NoRun
    /\ lastOp' = Op("playbackFrame", "none", <<playbackFrameReturns(recording)>>, TRUE)
    /\ tickApplied' = <<>>
    /\ tickLog' = NoTick
    /\ UNCHANGED <<hostVars, bindVars, recording, isRecording, frameCount, tickHooked, tickWraps>>
    /\ UNCHANGED objVars

ImportCalls ==
    {[how |-> "array", arg |-> S] : S \in InputSeqs}
    \cup {[how |-> "text", arg |-> T] : T \in InputTexts}

\* TAS.importRecording(data)
ImportRecording ==
    /\ \E c \in ImportCalls :
          LET res == importRecording(c.how, c.arg)
          IN  /\ recording' = res.recording
              /\ lastOp' = Op("importRecording", c.how, <<>>, res.ok)
    /\ run' = NoRun
    /\ tickApplied' = <<>>
    /\ tickLog' = NoTick
    /\ UNCHANGED <<hostVars, Ob, bindVars, isRecording, isPlaying, playbackIndex,
                   frameCount, tickHooked, tickWraps>>
    /\ UNCHANGED objVars

\* TAS.exportRecording()
ExportRecording ==
    /\ lastOp' = Op("exportRecording", "text", exportRecording, TRUE)
    /\ tickApplied' = <<>>
    /\ tickLog' = NoTick
    /\ UNCHANGED <<hostVars, Ob, bindVars, sessionVars, tickHooked, tickWraps, run>>
    /\ UNCHANGED objVars

\* TAS.importRecording(TAS.exportRecording()): the text just exported comes back
ImportExported ==
    /\ lastOp.op = "exportRecording"
    /\ LET res == importRecording("text", lastOp.arg)
       IN  /\ recording' = res.recording
           /\ lastOp' = Op("importRecording", "exported", lastOp.arg, res.ok)
    /\ run' = NoRun
    /\ tickApplied' = <<>>
    /\ tickLog' = NoTick
    /\ UNCHANGED <<hostVars, Ob, bindVars, isRecording, isPlaying, playbackIndex,
                   frameCount, tickHooked, tickWraps>>
    /\ UNCHANGED objVars

-----------------------------------------------------------------------------
(* The session specification: the engine as loaded into the page, before   *)
(* the game has started.                                                   *)

Init ==
    /\ variant \in Variants
    /\ VvDefined = FALSE
    /\ WvReady = FALSE
    /\ Ea = DefaultEa
    /\ Ob = {}
    /\ inputManager = FALSE
    /\ keyboardHandler = FALSE
    /\ recording = <<>>
    /\ isRecording = FALSE
    /\ isPlaying = FALSE
    /\ playbackIndex = 0
    /\ frameCount = 0
    /\ tickHooked = FALSE
    /\ tickWraps = 0
    /\ lastOp = OtherOp
    /\ run = NoRun
    /\ tickApplied = <<>>
    /\ tickLog = NoTick
    /\ NoObjects

Next ==
    \/ HostStart
    \/ HostTick
    \/ TASinit
    \/ HookGameTickCall
    \/ StartRecording
    \/ StopRecording
    \/ RecordFrameCall
    \/ StartPlayback
    \/ StopPlayback
    \/ PlaybackFrameCall
    \/ ImportRecording
    \/ ExportRecording
    \/ ImportExported

Spec == Init /\ [][Next]_vars

-----------------------------------------------------------------------------
(* The adapter specification: the calls of the input adapter alone, from   *)
(* every host mapping, binding and prior key state of the model.           *)

adapterFrame ==
    <<hostVars, bindVars, sessionVars, tickHooked, tickWraps, run, tickApplied,
      tickLog, objVars>>

\* TAS.pressKey(keyCode)
PressKeyCall ==
    /\ \E k \in PriorKeys : Ob' = pressKey(Ob, k)
    /\ lastOp' = OtherOp
    /\ UNCHANGED adapterFrame

\* TAS.releaseKey(keyCode)
ReleaseKeyCall ==
    /\ \E k \in PriorKeys : Ob' = releaseKey(Ob, k)
    /\ lastOp' = OtherOp
    /\ UNCHANGED adapterFrame

\* TAS.releaseAllKeys()
ReleaseAllKeysCall ==
    /\ Ob' = releaseAllKeys(Ob)
    /\ lastOp' = OtherOp
    /\ UNCHANGED adapterFrame

\* TAS.pressDirection(direction)
PressDirectionCall ==
    /\ variant # "event"
    /\ \E d \in Slots :
          /\ Ob' = pressDirection(Ob, d)
          /\ lastOp' = Op("pressDirection", "none", <<d>>, TRUE)
    /\ UNCHANGED adapterFrame

\* TAS.releaseDirection(direction)
ReleaseDirectionCall ==
    /\ variant # "event"
    /\ \E d \in Slots :
          /\ Ob' = releaseDirection(Ob, d)
          /\ lastOp' = Op("releaseDirection", "none", <<d>>, TRUE)
    /\ UNCHANGED adapterFrame

\* TAS.left(), right(), up(), down(), action(), cancel()
PressShortcutCall ==
    /\ \E d \in Slots :
          /\ Ob' = pressSlot(Ob, d)
          /\ lastOp' = Op("pressShortcut", "none", <<d>>, TRUE)
    /\ UNCHANGED adapterFrame

\* TAS.releaseLeft(), releaseRight(), ..., releaseCancel()
ReleaseShortcutCall ==
    /\ \E d \in Slots :
          /\ Ob' = releaseSlot(Ob, d)
          /\ lastOp' = Op("releaseShortcut", "none", <<d>>, TRUE)
    /\ UNCHANGED adapterFrame

\* TAS.setInputState(state); "again" marks the same call made twice in a row
SetInputStateCall ==
    /\ \E v \in AllVectors :
          /\ Ob' = setInputState(Ob, v)
          /\ lastOp' = Op("setInputState",
                          IF lastOp.op = "setInputState" /\ lastOp.arg = <<v>>
                          THEN "again" ELSE "vec",
                          <<v>>, TRUE)
    /\ UNCHANGED adapterFrame

InitAdapter ==
    /\ variant \in Variants
    /\ VvDefined = TRUE
    /\ WvReady = TRUE
    /\ Ea \in {DefaultEa, MissingEa, EmptyLeftEa, RemappedEa}
    /\ Ob \in SUBSET PriorKeys
    /\ inputManager \in BOOLEAN
    /\ keyboardHandler = inputManager
    /\ recording = <<>>
    /\ isRecording = FALSE
    /\ isPlaying = FALSE
    /\ playbackIndex = 0
    /\ frameCount = 0
    /\ tickHooked = FALSE
    /\ tickWraps = 0
    /\ lastOp = OtherOp
    /\ run = NoRun
    /\ tickApplied = <<>>
    /\ tickLog = NoTick
    /\ NoObjects

NextAdapter ==
    \/ PressKeyCall
    \/ ReleaseKeyCall
    \/ ReleaseAllKeysCall
    \/ PressDirectionCall
    \/ ReleaseDirectionCall
    \/ PressShortcutCall
    \/ ReleaseShortcutCall
    \/ SetInputStateCall

SpecAdapter == InitAdapter /\ [][NextAdapter]_vars

-----------------------------------------------------------------------------
(* The sequence builder: TAS.sequence() and the calls on the builder it    *)
(* returns.  The builder's seq is a list in the heap; build() hands out    *)
(* that list itself.                                                       *)

\* a direction argument that matches none of TAS.DIRECTION
NoSlot == 6
BuilderDirections == Slots \cup {NoSlot}

\* the state hold pushes for frame f
holdState(direction, f) ==
    [frame |-> f,
     left |-> direction = DIRECTION["LEFT"],
     right |-> direction = DIRECTION["RIGHT"],
     up |-> direction = DIRECTION["UP"],
     down |-> direction = DIRECTION["DOWN"],
     action |-> direction = DIRECTION["ACTION"],
     cancel |-> direction = DIRECTION["CANCEL"]]

\* the state wait pushes for frame f
waitState(f) ==
    [frame |-> f, left |-> FALSE, right |-> FALSE, up |-> FALSE, down |-> FALSE,
     action |-> FALSE, cancel |-> FALSE]

\* the loop of hold from i on: the list and the counter after it
RECURSIVE holdLoop(_, _, _, _, _)
holdLoop(list, cf, direction, frames, i) ==
    IF ~(i < frames) THEN [seq |-> list, currentFrame |-> cf]
    ELSE holdLoop(Append(list, holdState(direction, cf)), cf + 1,
                  direction, frames, i + 1)

\* A hold that numbers its frames from 0 at every call.
RECURSIVE holdLoopFromZero(_, _, _, _, _)
holdLoopFromZero(list, cf, direction, frames, i) ==
    IF ~(i < frames) THEN [seq |-> list, currentFrame |-> cf]
    ELSE holdLoopFromZero(Append(list, holdState(direction, i)), cf + 1,
                          direction, frames, i + 1)

holdFromZero(direction, frames) ==
    holdLoopFromZero(heap[builderSeq], currentFrame, direction, frames, 0)

\* builder.hold(direction, frames)
hold(direction, frames) ==
    holdLoop(heap[builderSeq], currentFrame, direction, frames, 0)

\* the loop of wait from i on
RECURSIVE waitLoop(_, _, _, _)
waitLoop(list, cf, frames, i) ==
    IF ~(i < frames) THEN [seq |-> list, currentFrame |-> cf]
    ELSE waitLoop(Append(list, waitState(cf)), cf + 1, frames, i + 1)

\* builder.wait(frames)
wait(frames) == waitLoop(heap[builderSeq], currentFrame, frames, 0)

\* what the calls on the builder leave alone
builderFrame ==
    <<hostVars, bindVars, Ob, isRecording, isPlaying, playbackIndex, frameCount,
      tickHooked, tickWraps, run, tickApplied, tickLog, recRef, timers, worker,
      caches, boot>>

\* TAS.sequence()
SequenceCall ==
    /\ builderSeq = 0
    /\ heap' = Append(heap, <<>>)
    /\ builderSeq' = Len(heap) + 1
    /\ currentFrame' = 0
    /\ chain' = <<>>
    /\ lastOp' = OtherOp
    /\ UNCHANGED <<recording, held, builderFrame>>

\* builder.hold(direction, frames)
Hold(direction, frames) ==
    /\ builderSeq # 0
    /\ Len(chain) < MaxChain
    /\ heap' = [heap EXCEPT ![builderSeq] = hold(direction, frames).seq]
    /\ currentFrame' = hold(direction, frames).currentFrame
    /\ chain' = Append(chain, [op |-> "hold", d |-> direction, n |-> frames])
    /\ recording' = heap'[recRef]
    /\ lastOp' = OtherOp
    /\ UNCHANGED <<builderSeq, held, builderFrame>>

\* builder.wait(frames)
Wait(frames) ==
    /\ builderSeq # 0
    /\ Len(chain) < MaxChain
    /\ heap' = [heap EXCEPT ![builderSeq] = wait(frames).seq]
    /\ currentFrame' = wait(frames).currentFrame
    /\ chain' = Append(chain, [op |-> "wait", d |-> NoSlot, n |-> frames])
    /\ recording' = heap'[recRef]
    /\ lastOp' = OtherOp
    /\ UNCHANGED <<builderSeq, held, builderFrame>>

\* frames || 1
framesOrOne(frames) == IF frames = 0 THEN 1 ELSE frames

\* builder.left(frames), right, up, down, action, cancel:
\* builder.hold(slot, frames || 1)
Shortcut(direction, frames) ==
    /\ builderSeq # 0
    /\ Len(chain) < MaxChain
    /\ heap' = [heap EXCEPT ![builderSeq] =
                    hold(direction, framesOrOne(frames)).seq]
    /\ currentFrame' = hold(direction, framesOrOne(frames)).currentFrame
    /\ chain' = Append(chain, [op |-> "hold", d |-> direction,
                               n |-> framesOrOne(frames)])
    /\ recording' = heap'[recRef]
    /\ lastOp' = Op("shortcut", "none", <<direction, frames>>, TRUE)
    /\ UNCHANGED <<builderSeq, held, builderFrame>>

ShortcutCall == \E direction \in Slots, frames \in 0..MaxHold :
                    Shortcut(direction, frames)

HoldCall == \E direction \in BuilderDirections, frames \in 0..MaxHold :
                Hold(direction, frames)

WaitCall == \E frames \in 0..MaxHold : Wait(frames)

\* builder.build(): returns seq
BuildCall ==
    /\ builderSeq # 0
    /\ held' = [ref |-> builderSeq, val |-> heap[builderSeq], from |-> "build"]
    /\ lastOp' = Op("build", "none", <<>>, TRUE)
    /\ UNCHANGED <<heap, builderSeq, currentFrame, chain, recording, builderFrame>>

\* builder.play(): TAS.startPlayback(seq), then returns seq
PlayCall ==
    /\ builderSeq # 0
    /\ LET res == startPlayback("array", heap[builderSeq])
       IN  /\ recRef' = IF Len(heap[builderSeq]) > 0 THEN builderSeq ELSE recRef
           /\ recording' = res.recording
           /\ playbackIndex' = res.playbackIndex
           /\ isPlaying' = res.isPlaying
           /\ isRecording' = res.isRecording
           /\ tickHooked' = res.tickHooked
           /\ tickWraps' = (IF res.ok /\ ~tickHooked THEN hookWraps ELSE tickWraps)
           /\ run' = IF res.ok THEN StartRun("play", res.recording) ELSE NoRun
           /\ lastOp' = Op("play", "none", <<>>, res.ok)
    /\ held' = [ref |-> builderSeq, val |-> heap[builderSeq], from |-> "play"]
    /\ tickApplied' = <<>>
    /\ tickLog' = NoTick
    /\ UNCHANGED <<hostVars, bindVars, Ob, frameCount, heap, builderSeq,
                   currentFrame, chain, timers, worker, caches, boot>>

InitBuilder ==
    /\ variant \in {"direct", "legacy"}
    /\ VvDefined = TRUE
    /\ WvReady = TRUE
    /\ Ea = DefaultEa
    /\ Ob = {}
    /\ inputManager = TRUE
    /\ keyboardHandler = TRUE
    /\ recording = <<>>
    /\ isRecording = FALSE
    /\ isPlaying = FALSE
    /\ playbackIndex = 0
    /\ frameCount = 0
    /\ tickHooked = FALSE
    /\ tickWraps = 0
    /\ lastOp = OtherOp
    /\ run = NoRun
    /\ tickApplied = <<>>
    /\ tickLog = NoTick
    /\ NoObjects

NextBuilder ==
    \/ SequenceCall
    \/ HoldCall
    \/ ShortcutCall
    \/ WaitCall
    \/ BuildCall
    \/ PlayCall

SpecBuilder == InitBuilder /\ [][NextBuilder]_vars

-----------------------------------------------------------------------------
(* The import specification: importRecording with texts of any JSON value, *)
(* from the session states a caller can have brought about.                *)

\* the texts handed to importRecording: those of a list, a broken one, null
JsonTexts == InputTexts \cup { <<"null">> }

\* TAS.importRecording(text)
ImportTextCall ==
    /\ \E T \in JsonTexts :
          LET res == importRecording("text", T)
          IN  /\ recording' = res.recording
              /\ lastOp' = Op("importRecording", "text", <<>>, res.ok)
    /\ run' = NoRun
    /\ tickApplied' = <<>>
    /\ tickLog' = NoTick
    /\ UNCHANGED <<hostVars, Ob, bindVars, isRecording, isPlaying, playbackIndex,
                   frameCount, tickHooked, tickWraps, objVars>>

\* TAS.importRecording(list)
ImportListCall ==
    /\ \E S \in InputSeqs :
          LET res == importRecording("array", S)
          IN  /\ recording' = res.recording
              /\ lastOp' = Op("importRecording", "array", <<>>, res.ok)
    /\ run' = NoRun
    /\ tickApplied' = <<>>
    /\ tickLog' = NoTick
    /\ UNCHANGED <<hostVars, Ob, bindVars, isRecording, isPlaying, playbackIndex,
                   frameCount, tickHooked, tickWraps, objVars>>

\* a host tick on whatever importRecording left in _recording: the callbacks
\* of the hook read this._recording.push and this._recording.length, which
\* throw a TypeError out of the hooked tick when _recording is null
TickAfterImport ==
    /\ tickWraps \in {0, 1}
    /\ (tickWraps = 1 /\ isRecording) => frameCount < MaxFrame
    /\ LET hooked == tickWraps = 1
           same == [isPlaying |-> isPlaying, playbackIndex |-> playbackIndex,
                    Ob |-> Ob, applied |-> <<>>]
           pushThrows == /\ hooked /\ isRecording /\ inputManager
                         /\ recording = JSnull
           r == IF hooked /\ ~pushThrows THEN recordFrame
                ELSE [recording |-> recording, frameCount |-> frameCount]
           lengthThrows == /\ hooked /\ ~pushThrows /\ isPlaying
                           /\ r.recording = JSnull
           p == IF hooked /\ ~pushThrows /\ ~lengthThrows
                THEN playbackFrame(r.recording) ELSE same
       IN  /\ recording' = r.recording
           /\ frameCount' = r.frameCount
           /\ isPlaying' = p.isPlaying
           /\ playbackIndex' = p.playbackIndex
           /\ Ob' = p.Ob
           /\ tickApplied' = p.applied
           /\ tickLog' = [calls |-> <<"originalTick">>
                                    \o (IF hooked /\ isRecording
                                        THEN <<"recordFrame">> ELSE <<>>)
                                    \o (IF hooked /\ ~pushThrows /\ isPlaying
                                        THEN <<"playbackFrame">> ELSE <<>>),
                          original |-> "undefined",
                          observed |-> "undefined"]
           /\ lastOp' = IF pushThrows \/ lengthThrows
                        THEN Op("tick", "throws", <<>>, FALSE)
                        ELSE Op("tick", "none", <<>>, TRUE)
    /\ run' = RunTick
    /\ UNCHANGED <<hostVars, bindVars, isRecording, tickHooked, tickWraps, objVars>>

InitImport ==
    /\ variant \in Variants
    /\ VvDefined = TRUE
    /\ WvReady = TRUE
    /\ Ea = DefaultEa
    /\ Ob = {}
    /\ inputManager = TRUE
    /\ keyboardHandler = TRUE
    /\ recording \in InputSeqs
    /\ isRecording \in BOOLEAN
    /\ isPlaying \in BOOLEAN
    /\ playbackIndex \in (IF isPlaying THEN 0..Len(recording) ELSE {0})
    /\ frameCount = 0
    /\ tickHooked = (variant # "legacy")
    /\ tickWraps = (IF variant # "legacy" THEN 1 ELSE 0)
    /\ lastOp = OtherOp
    /\ run = NoRun
    /\ tickApplied = <<>>
    /\ tickLog = NoTick
    /\ NoObjects

NextImport ==
    \/ ImportTextCall
    \/ ImportListCall
    \/ StartRecording
    \/ StopPlayback
    \/ TickAfterImport

SpecImport == InitImport /\ [][NextImport]_vars

-----------------------------------------------------------------------------
(* The session with list identities: _recording is a reference into the    *)
(* heap, stopRecording() and getRecording() allocate a copy, and a list    *)
(* handed to importRecording or startPlayback becomes _recording itself.   *)

\* a new list with the given records
alloc(records) == Append(heap, records)

snapshotFrame ==
    <<variant, VvDefined, WvReady, Ea, bindVars, builderSeq, currentFrame, chain,
      timers, worker, caches, boot>>

\* TAS.startRecording(): this._recording = []
StartRecordingNew ==
    /\ Len(heap) < MaxObjects
    /\ heap' = alloc(<<>>)
    /\ recRef' = Len(heap) + 1
    /\ recording' = <<>>
    /\ isRecording' = TRUE
    /\ frameCount' = 0
    /\ tickHooked' = hookGameTick
    /\ tickWraps' = (IF tickHooked THEN tickWraps ELSE hookWraps)
    /\ run' = StartRun("rec", <<>>)
    /\ lastOp' = Op("startRecording", "none", <<>>, TRUE)
    /\ tickApplied' = <<>>
    /\ tickLog' = NoTick
    /\ UNCHANGED <<snapshotFrame, Ob, isPlaying, playbackIndex, held>>

\* a host tick: recordFrame pushes into the list _recording refers to
TickOnList ==
    /\ tickWraps = 1
    /\ isRecording => frameCount < MaxFrame
    /\ LET r == recordFrame
           p == playbackFrame(r.recording)
       IN  /\ recording' = r.recording
           /\ heap' = [heap EXCEPT ![recRef] = r.recording]
           /\ frameCount' = r.frameCount
           /\ isPlaying' = p.isPlaying
           /\ playbackIndex' = p.playbackIndex
           /\ Ob' = p.Ob
           /\ tickApplied' = p.applied
    /\ \E result \in TickResults :
          tickLog' = [calls |-> <<"originalTick">>
                                \o (IF isRecording THEN <<"recordFrame">> ELSE <<>>)
                                \o (IF isPlaying THEN <<"playbackFrame">> ELSE <<>>),
                      original |-> result,
                      observed |-> "undefined"]
    /\ run' = RunTick
    /\ lastOp' = Op("tick", "none", <<>>, TRUE)
    /\ UNCHANGED <<snapshotFrame, isRecording, tickHooked, tickWraps, recRef, held>>

\* const list = TAS.stopRecording(): return this._recording.slice()
StopRecordingSlice ==
    /\ Len(heap) < MaxObjects
    /\ isRecording' = FALSE
    /\ heap' = alloc(heap[recRef])
    /\ held' = [ref |-> Len(heap) + 1, val |-> heap[recRef], from |-> "stopRecording"]
    /\ run' = IF run.kind = "rec" THEN [run EXCEPT !.kind = "recDone"] ELSE NoRun
    /\ lastOp' = Op("stopRecording", "array", recording, TRUE)
    /\ tickApplied' = <<>>
    /\ tickLog' = NoTick
    /\ UNCHANGED <<snapshotFrame, Ob, recording, isPlaying, playbackIndex,
                   frameCount, tickHooked, tickWraps, recRef>>

\* const list = TAS.getRecording(): return this._recording.slice()
GetRecordingSlice ==
    /\ Len(heap) < MaxObjects
    /\ heap' = alloc(heap[recRef])
    /\ held' = [ref |-> Len(heap) + 1, val |-> heap[recRef], from |-> "getRecording"]
    /\ run' = NoRun
    /\ lastOp' = Op("getRecording", "array", recording, TRUE)
    /\ tickApplied' = <<>>
    /\ tickLog' = NoTick
    /\ UNCHANGED <<snapshotFrame, Ob, sessionVars, tickHooked, tickWraps, recRef>>

\* TAS.importRecording(list) with the list a call returned earlier
ImportHeldList ==
    /\ held.ref # 0
    /\ LET res == importRecording("array", heap[held.ref])
       IN  /\ recording' = res.recording
           /\ recRef' = IF res.ok THEN held.ref ELSE recRef
           /\ lastOp' = Op("importRecording", "array", <<>>, res.ok)
    /\ run' = NoRun
    /\ tickApplied' = <<>>
    /\ tickLog' = NoTick
    /\ UNCHANGED <<snapshotFrame, Ob, isRecording, isPlaying, playbackIndex,
                   frameCount, tickHooked, tickWraps, heap, held>>

\* TAS.importRecording(text): JSON.parse makes a new list
ImportTextNew ==
    /\ Len(heap) < MaxObjects
    /\ \E S \in InputSeqs :
          LET res == importRecording("text", JSONstringify(S))
          IN  /\ recording' = res.recording
              /\ heap' = IF res.ok THEN alloc(res.recording) ELSE heap
              /\ recRef' = IF res.ok THEN Len(heap) + 1 ELSE recRef
              /\ lastOp' = Op("importRecording", "text", <<>>, res.ok)
    /\ run' = NoRun
    /\ tickApplied' = <<>>
    /\ tickLog' = NoTick
    /\ UNCHANGED <<snapshotFrame, Ob, isRecording, isPlaying, playbackIndex,
                   frameCount, tickHooked, tickWraps, held>>

\* TAS.startPlayback() and TAS.startPlayback(list) with a list returned earlier
StartPlaybackOfList ==
    /\ \E how \in {"none", "array"} :
          /\ how = "array" => held.ref # 0
          /\ LET arg == IF how = "array" THEN heap[held.ref] ELSE <<>>
                 res == startPlayback(how, arg)
             IN  /\ recRef' = IF how = "array" /\ Len(arg) > 0 THEN held.ref
                              ELSE recRef
                 /\ recording' = res.recording
                 /\ playbackIndex' = res.playbackIndex
                 /\ isPlaying' = res.isPlaying
                 /\ isRecording' = res.isRecording
                 /\ tickHooked' = res.tickHooked
                 /\ tickWraps' = (IF res.ok /\ ~tickHooked THEN hookWraps
                                  ELSE tickWraps)
                 /\ run' = IF res.ok THEN StartRun("play", res.recording) ELSE NoRun
                 /\ lastOp' = Op("startPlayback", how, <<>>, res.ok)
    /\ tickApplied' = <<>>
    /\ tickLog' = NoTick
    /\ UNCHANGED <<snapshotFrame, Ob, frameCount, heap, held>>

InitSnapshot ==
    /\ variant \in {"direct", "event"}
    /\ VvDefined = TRUE
    /\ WvReady = TRUE
    /\ Ea = DefaultEa
    /\ Ob = {}
    /\ inputManager = TRUE
    /\ keyboardHandler = TRUE
    /\ recording = <<>>
    /\ isRecording = FALSE
    /\ isPlaying = FALSE
    /\ playbackIndex = 0
    /\ frameCount = 0
    /\ tickHooked = FALSE
    /\ tickWraps = 0
    /\ lastOp = OtherOp
    /\ run = NoRun
    /\ tickApplied = <<>>
    /\ tickLog = NoTick
    /\ NoObjects

NextSnapshot ==
    \/ StartRecordingNew
    \/ TickOnList
    \/ StopRecordingSlice
    \/ GetRecordingSlice
    \/ ImportHeldList
    \/ ImportTextNew
    \/ StartPlaybackOfList
    \/ StopPlayback

SpecSnapshot == InitSnapshot /\ [][NextSnapshot]_vars


-----------------------------------------------------------------------------
(* Timed taps: tapDirection and tapKey press at once and leave the release *)
(* to a timer.  Nothing in the program clears a timer, so a pending        *)
(* release stays pending until the event loop runs it.                     *)

\* a tap whose release is never scheduled
setTimeoutDropped(t) == timers

\* setTimeout(callback, delay): one more pending callback
setTimeout(t) == [timers EXCEPT ![t] = @ + 1]

timersFrame ==
    <<hostVars, bindVars, sessionVars, tickHooked, tickWraps, heap, recRef,
      builderSeq, currentFrame, chain, held, worker, caches, boot>>

\* TAS.tapDirection(direction, frames)
TapDirection(d) ==
    LET t == [op |-> "releaseDirection", arg |-> d]
    IN  /\ variant # "event"
        /\ timers[t] < MaxTimers
        /\ Ob' = pressDirection(Ob, d)
        /\ timers' = setTimeout(t)
        /\ lastOp' = Op("tap", "none", <<t>>, TRUE)
        /\ run' = NoRun
        /\ tickApplied' = <<>>
        /\ tickLog' = NoTick
        /\ UNCHANGED timersFrame

TapDirectionCall == \E d \in TapSlots : TapDirection(d)

\* TAS.tapKey(keyCode)
TapKey(k) ==
    LET t == [op |-> "releaseKey", arg |-> k]
    IN  /\ variant = "event"
        /\ timers[t] < MaxTimers
        /\ Ob' = pressKey(Ob, k)
        /\ timers' = setTimeout(t)
        /\ lastOp' = Op("tap", "none", <<t>>, TRUE)
        /\ run' = NoRun
        /\ tickApplied' = <<>>
        /\ tickLog' = NoTick
        /\ UNCHANGED timersFrame

TapKeyCall == \E k \in TapKeys : TapKey(k)

\* the event loop runs a pending callback
TimerFires(t) ==
    /\ timers[t] > 0
    /\ Ob' = IF t.op = "releaseDirection" THEN releaseDirection(Ob, t.arg)
             ELSE releaseKey(Ob, t.arg)
    /\ timers' = [timers EXCEPT ![t] = @ - 1]
    /\ lastOp' = Op("timer", "none", <<t>>, TRUE)
    /\ run' = NoRun
    /\ tickApplied' = <<>>
    /\ tickLog' = NoTick
    /\ UNCHANGED timersFrame

TimerFiresStep == \E t \in Pending : TimerFires(t)

InitTimers ==
    /\ variant \in Variants
    /\ VvDefined = TRUE
    /\ WvReady = TRUE
    /\ Ea = DefaultEa
    /\ Ob = {}
    /\ inputManager = TRUE
    /\ keyboardHandler = TRUE
    /\ recording = <<>>
    /\ isRecording = FALSE
    /\ isPlaying = FALSE
    /\ playbackIndex = 0
    /\ frameCount = 0
    /\ tickHooked = FALSE
    /\ tickWraps = 0
    /\ lastOp = OtherOp
    /\ run = NoRun
    /\ tickApplied = <<>>
    /\ tickLog = NoTick
    /\ NoObjects

NextTimers ==
    \/ TapDirectionCall
    \/ TapKeyCall
    \/ TimerFiresStep
    \/ StartRecording
    \/ StopRecording
    \/ StartPlayback
    \/ StopPlayback

\* the event loop runs every callback that stays pending
SpecTimers ==
    /\ InitTimers
    /\ [][NextTimers]_vars
    /\ \A t \in Pending : WF_vars(TimerFires(t))

\* Taps made before or during a playback: the timer callbacks run between
\* the ticks of the host, in any order.
NextPlayTaps ==
    \/ TapDirectionCall
    \/ TapKeyCall
    \/ TimerFiresStep
    \/ HostTick
    \/ StartPlayback
    \/ StopPlayback

SpecPlayTaps == InitTimers /\ [][NextPlayTaps]_vars

-----------------------------------------------------------------------------
(* The service worker: its activate handler, one 'cache-resources'         *)
(* request handled by cacheResources(client), and 'clear-cache' requests   *)
(* handled by clearCache(client).  Each await is a point where the         *)
(* browser's answer comes in and another handler may run.  The cache       *)
(* storage maps names to cache objects; a cache object that was opened     *)
(* stays usable after its name is deleted, but no name reaches it.         *)

\* the manifest of the model: resources 1..MaxResources, in manifest order
GAME_RESOURCES == [j \in 1..MaxResources |-> j]

\* what fetching and storing one resource can come to
Outcomes == {"stored", "notOk", "fetchThrows", "putThrows"}

\* the message posted to the client
message(type, cached, failed) ==
    [type |-> type, cached |-> cached, failed |-> failed,
     total |-> Len(GAME_RESOURCES)]

\* name.startsWith(prefix)
startsWith(name, prefix) == Len(name) >= 1 /\ name[1] = prefix

\* a filter of the activate handler that keeps every 'kitsune-' name
staleCachesByPrefix(names) == {n \in names : startsWith(n, "kitsune-")}

\* the filter of the activate handler
staleCaches(names) ==
    {n \in names : startsWith(n, "kitsune-") /\ n # CACHE_NAME}

\* caches.keys()
cacheKeys == {n \in CacheNames : caches.map[n] # 0}

\* caches.open(name): the storage after it, with a new empty cache if the
\* name had none
cachesOpen(name) ==
    IF caches.map[name] # 0 THEN caches
    ELSE [map |-> [caches.map EXCEPT ![name] = Len(caches.objs) + 1],
          objs |-> Append(caches.objs, {})]

\* caches.delete(name)
cachesDelete(name) == [caches EXCEPT !.map[name] = 0]

\* cache.put(resource, response) on the cache object h
cachePut(h, resource) == [caches EXCEPT !.objs[h] = @ \cup {resource}]

workerFrame ==
    <<hostVars, bindVars, Ob, sessionVars, tickHooked, tickWraps, run,
      tickApplied, tickLog, heap, recRef, builderSeq, currentFrame, chain,
      held, timers, boot>>

\* the activate handler up to the answer of caches.keys()
ActivateKeys ==
    /\ worker.act = "installed"
    /\ \E answered \in BOOLEAN :
          worker' = IF answered
                    THEN [worker EXCEPT !.act = "deleting", !.names = cacheKeys,
                                        !.todo = staleCaches(cacheKeys)]
                    ELSE [worker EXCEPT !.act = "activateFailed"]
    /\ lastOp' = Op("activate", "keys", <<>>, TRUE)
    /\ UNCHANGED <<caches, workerFrame>>

\* one caches.delete(name) of the activate handler settles; a rejection
\* rejects the Promise.all while the other deletions go on
DeleteStale(name) ==
    /\ worker.act \in {"deleting", "activateFailed"}
    /\ name \in worker.todo
    /\ \E deleted \in BOOLEAN :
          /\ caches' = IF deleted THEN cachesDelete(name) ELSE caches
          /\ worker' = [worker EXCEPT
                           !.todo = @ \ {name},
                           !.act = IF deleted THEN @ ELSE "activateFailed"]
    /\ lastOp' = Op("activate", "delete", <<name>>, TRUE)
    /\ UNCHANGED workerFrame

DeleteStaleStep == \E name \in CacheNames : DeleteStale(name)

\* every deletion has succeeded: clients.claim(), and the handler completes
ActivateDone ==
    /\ worker.act = "deleting"
    /\ worker.todo = {}
    /\ worker' = [worker EXCEPT !.act = "activated"]
    /\ lastOp' = Op("activate", "done", <<>>, TRUE)
    /\ UNCHANGED <<caches, workerFrame>>

\* the message handler: event.data.action === 'cache-resources'
CacheResourcesRequest ==
    /\ worker.pc = "idle"
    /\ worker' = [worker EXCEPT !.pc = "open"]
    /\ lastOp' = OtherOp
    /\ UNCHANGED <<caches, workerFrame>>

\* const cache = await caches.open(CACHE_NAME), outside any try block
CachesOpen ==
    /\ worker.pc = "open"
    /\ \E opened \in BOOLEAN :
          IF opened
          THEN /\ caches' = cachesOpen(CACHE_NAME)
               /\ worker' = [worker EXCEPT !.pc = "loop",
                                           !.handle = caches'.map[CACHE_NAME]]
          ELSE /\ caches' = caches
               /\ worker' = [worker EXCEPT !.pc = "rejected"]
    /\ lastOp' = OtherOp
    /\ UNCHANGED workerFrame

\* one turn of the loop over GAME_RESOURCES, with its cache-progress message
CacheOneResource ==
    /\ worker.pc = "loop"
    /\ worker.next <= Len(GAME_RESOURCES)
    /\ \E outcome \in Outcomes :
          LET cached == worker.cached + (IF outcome = "stored" THEN 1 ELSE 0)
              failed == worker.failed + (IF outcome = "stored" THEN 0 ELSE 1)
          IN  /\ worker' = [worker EXCEPT
                            !.next = @ + 1,
                            !.cached = cached,
                            !.failed = failed,
                            !.log = Append(@, [resource |-> GAME_RESOURCES[worker.next],
                                               outcome |-> outcome]),
                            !.sent = Append(@, message("cache-progress",
                                                       cached, failed))]
              /\ caches' = IF outcome = "stored"
                           THEN cachePut(worker.handle, GAME_RESOURCES[worker.next])
                           ELSE caches
    /\ lastOp' = OtherOp
    /\ UNCHANGED workerFrame

\* after the loop: the cache-complete message
CacheComplete ==
    /\ worker.pc = "loop"
    /\ worker.next > Len(GAME_RESOURCES)
    /\ worker' = [worker EXCEPT
                     !.pc = "done",
                     !.sent = Append(@, message("cache-complete",
                                                worker.cached, worker.failed))]
    /\ lastOp' = Op("cacheComplete", "none", <<>>, TRUE)
    /\ UNCHANGED <<caches, workerFrame>>

\* the message handler: event.data.action === 'clear-cache', clearCache(client)
ClearCache ==
    /\ worker.clears < MaxClears
    /\ \E settled \in BOOLEAN :
          /\ caches' = IF settled THEN cachesDelete(CACHE_NAME) ELSE caches
          /\ lastOp' = Op("clearCache", "none", <<>>, settled)
    /\ worker' = [worker EXCEPT !.clears = @ + 1]
    /\ UNCHANGED workerFrame

\* the cache storage the worker finds: each name with an empty cache or none
InitialCaches ==
    {[map |-> [n \in CacheNames |->
                  IF n \in P THEN Cardinality({m \in P : R[m] <= R[n]}) ELSE 0],
      objs |-> [i \in 1..Cardinality(P) |-> {}]] :
        P \in SUBSET CacheNames,
        R \in {(CACHE_NAME :> 1) @@ (OldCacheName :> 2) @@ (OtherCacheName :> 3)}}

InitWorker ==
    /\ variant = "event"
    /\ VvDefined = FALSE
    /\ WvReady = FALSE
    /\ Ea = DefaultEa
    /\ Ob = {}
    /\ inputManager = FALSE
    /\ keyboardHandler = FALSE
    /\ recording = <<>>
    /\ isRecording = FALSE
    /\ isPlaying = FALSE
    /\ playbackIndex = 0
    /\ frameCount = 0
    /\ tickHooked = FALSE
    /\ tickWraps = 0
    /\ lastOp = OtherOp
    /\ run = NoRun
    /\ tickApplied = <<>>
    /\ tickLog = NoTick
    /\ heap = << <<>> >>
    /\ recRef = 1
    /\ builderSeq = 0
    /\ currentFrame = 0
    /\ chain = <<>>
    /\ held = NoHeld
    /\ timers = [t \in Pending |-> 0]
    /\ worker = NoRequest
    /\ caches \in InitialCaches
    /\ boot = NoBoot

NextWorker ==
    \/ ActivateKeys
    \/ DeleteStaleStep
    \/ ActivateDone
    \/ CacheResourcesRequest
    \/ CachesOpen
    \/ CacheOneResource
    \/ CacheComplete
    \/ ClearCache

SpecWorker == InitWorker /\ [][NextWorker]_vars

-----------------------------------------------------------------------------
(* Auto-initialisation: when the script has run it waits for the page to   *)
(* be loaded, then calls tryInit(10) from a timer; tryInit calls itself    *)
(* again from a timer while init() fails and attempts are left.            *)

\* a tryInit that retries once more when no attempt is left
tryInitOneMore(attempts) ==
    [ok |-> WvReady,
     hook |-> WvReady /\ variant # "legacy",
     again |-> ~WvReady /\ attempts >= 0]

\* tryInit(attempts): the result of TAS.init(), whether _hookGameTick() is
\* called, whether tryInit(attempts - 1) is scheduled
tryInit(attempts) ==
    [ok |-> WvReady,
     hook |-> WvReady /\ variant # "legacy",
     again |-> ~WvReady /\ attempts > 0]

bootFrame ==
    <<heap, recRef, builderSeq, currentFrame, chain, held, timers, worker, caches>>

\* the script's last statement: document.readyState === 'complete' or not
ScriptRuns ==
    /\ boot.stage = "script"
    /\ \E complete \in BOOLEAN :
          boot' = IF complete
                  THEN [boot EXCEPT !.stage = "complete", !.pending = TRUE,
                                    !.attempts = InitAttempts]
                  ELSE [boot EXCEPT !.stage = "listening"]
    /\ lastOp' = OtherOp
    /\ tickApplied' = <<>>
    /\ tickLog' = NoTick
    /\ UNCHANGED <<hostVars, Ob, bindVars, sessionVars, tickHooked, tickWraps, run>>
    /\ UNCHANGED bootFrame

\* the window's load event
LoadEvent ==
    /\ boot.stage = "listening"
    /\ boot' = [boot EXCEPT !.stage = "loaded", !.pending = TRUE,
                            !.attempts = InitAttempts]
    /\ lastOp' = OtherOp
    /\ tickApplied' = <<>>
    /\ tickLog' = NoTick
    /\ UNCHANGED <<hostVars, Ob, bindVars, sessionVars, tickHooked, tickWraps, run>>
    /\ UNCHANGED bootFrame

\* the timer runs tryInit(boot.attempts)
TryInitFires ==
    /\ boot.pending
    /\ LET r == tryInit(boot.attempts)
       IN  /\ inputManager' = (WvReady \/ inputManager)
           /\ keyboardHandler' = (WvReady \/ keyboardHandler)
           /\ tickHooked' = IF r.hook THEN hookGameTick ELSE tickHooked
           /\ tickWraps' = IF r.hook THEN hookWraps ELSE tickWraps
           /\ boot' = [boot EXCEPT
                          !.pending = r.again,
                          !.attempts = IF r.again THEN @ - 1 ELSE @,
                          !.inits = @ + 1,
                          !.hooks = @ + (IF r.hook THEN 1 ELSE 0),
                          !.ok = r.ok]
           /\ lastOp' = Op("tryInit", "none", <<boot.attempts>>, r.ok)
    /\ tickApplied' = <<>>
    /\ tickLog' = NoTick
    /\ UNCHANGED <<hostVars, Ob, sessionVars, run>>
    /\ UNCHANGED bootFrame

InitAutoInit ==
    /\ variant \in Variants
    /\ VvDefined = FALSE
    /\ WvReady = FALSE
    /\ Ea = DefaultEa
    /\ Ob = {}
    /\ inputManager = FALSE
    /\ keyboardHandler = FALSE
    /\ recording = <<>>
    /\ isRecording = FALSE
    /\ isPlaying = FALSE
    /\ playbackIndex = 0
    /\ frameCount = 0
    /\ tickHooked = FALSE
    /\ tickWraps = 0
    /\ lastOp = OtherOp
    /\ run = NoRun
    /\ tickApplied = <<>>
    /\ tickLog = NoTick
    /\ heap = << <<>> >>
    /\ recRef = 1
    /\ builderSeq = 0
    /\ currentFrame = 0
    /\ chain = <<>>
    /\ held = NoHeld
    /\ timers = [t \in Pending |-> 0]
    /\ worker = NoRequest
    /\ caches = NoCaches
    /\ boot = [NoBoot EXCEPT !.stage = "script"]

NextAutoInit ==
    \/ ScriptRuns
    \/ LoadEvent
    \/ TryInitFires
    \/ HostStart
    \/ TASinit
    \/ HookGameTickCall
    \/ StartRecording
    \/ StopRecording

SpecAutoInit == InitAutoInit /\ [][NextAutoInit]_vars

-----------------------------------------------------------------------------
(* Properties of the session, checked under Spec.                          *)

\* the keys playback can assert in this state
PlaybackKeys == UNION {pressSlot({}, d) : d \in Slots}

\* the list stopRecording() returned has one record per tick of the run,
\* numbered from 0
OneRecordPerTick ==
    /\ Len(lastOp.arg) = run.ticks
    /\ \A i \in 1..Len(lastOp.arg) : lastOp.arg[i].frame = i - 1

\* C1: after startRecording(), exactly N host ticks, each observed through
\* the installed hook, and no other session call in between, stopRecording()
\* returns N records whose frame fields are 0..N-1 in order.
C1_OneRecordPerObservedTick ==
    (lastOp.op = "stopRecording" /\ run.kind = "recDone" /\ run.hooked)
        => OneRecordPerTick

\* C2 as stated: after startPlayback(S) and exactly length(S) host ticks the
\* session is Idle with every key released, and after exactly length(S)-1
\* ticks it is Playing with the cursor at length(S)-1.
C2_IdleAfterLengthTicks ==
    run.kind = "play" =>
        /\ run.ticks = Len(run.seq) => (~isPlaying /\ Ob \cap PlaybackKeys = {})
        /\ run.ticks = Len(run.seq) - 1 =>
               (isPlaying /\ playbackIndex = Len(run.seq) - 1)

\* C2: after startPlayback(S) and exactly k host ticks, all run through the
\* installed hook with no other session call: for k = length(S)-1 and for
\* k = length(S) the session is Playing with the cursor at k; for
\* k = length(S)+1 playback is over, the cursor is 0 and every key playback
\* can assert is released.
C2_IdleAfterLengthPlusOneTicks ==
    (run.kind = "play" /\ run.hooked) =>
        /\ run.ticks \in {Len(run.seq) - 1, Len(run.seq)} =>
               (isPlaying /\ playbackIndex = run.ticks)
        /\ run.ticks = Len(run.seq) + 1 =>
               (~isPlaying /\ playbackIndex = 0 /\ Ob \cap PlaybackKeys = {})

C2_Witness ==
    /\ run.kind = "play" /\ run.hooked /\ run.bound
    /\ Len(run.seq) = 2
    /\ run.ticks = 3
    /\ ~isPlaying

\* C3 as stated: the recording flag and the playing flag are never both true.
C3_MutualExclusion == ~(isRecording /\ isPlaying)

\* C4 as stated: a startPlayback call with a playable sequence made while
\* Recording leaves the session Playing with the recording flag false.
C4_PlaybackEndsRecording ==
    [][(isRecording /\ lastOp'.op = "startPlayback" /\ lastOp'.ok)
           => (isPlaying' /\ ~isRecording')]_vars

\* C5 as stated: startPlayback([]) from Idle never starts playback, whatever
\* sequence is held: mode, cursor and held sequence are unchanged.
C5_EmptyListNeverPlays ==
    [][(/\ ~isRecording /\ ~isPlaying
        /\ lastOp'.op = "startPlayback" /\ lastOp'.how = "array"
        /\ lastOp'.arg = <<>>)
           => (/\ ~isPlaying' /\ ~isRecording'
               /\ playbackIndex' = playbackIndex
               /\ recording' = recording)]_vars

C9_ExportImportRoundTrip ==
    [][(lastOp'.op = "importRecording" /\ lastOp'.how = "exported")
           => (lastOp'.ok /\ recording' = recording)]_vars

C9_Witness ==
    /\ lastOp.op = "importRecording" /\ lastOp.how = "exported" /\ lastOp.ok
    /\ Len(recording) >= 2
    /\ recording[1] # recording[2]

\* C10: every step that ends playback, stopPlayback() from any state or a
\* tick that finds the sequence exhausted, leaves the playing flag false,
\* the cursor at 0 and every key playback can assert released.
C10_NoStuckKeys ==
    [][(lastOp'.op = "stopPlayback" \/ (isPlaying /\ ~isPlaying'))
           => (/\ ~isPlaying'
               /\ playbackIndex' = 0
               /\ Ob' \cap PlaybackKeys = {})]_vars

C10_Witness ==
    /\ lastOp.op = "tick"
    /\ run.kind = "play" /\ run.hooked /\ run.bound
    /\ run.ticks = Len(run.seq) + 1
    /\ ~isPlaying
    /\ Ob = {}

C16_HookedAtMostOnce ==
    /\ tickWraps <= 1
    /\ tickHooked <=> tickWraps = 1

\* a direct call of _hookGameTick during a recording that ticks already drive
C16_Witness ==
    /\ lastOp.op = "hookGameTick"
    /\ run.kind = "rec" /\ run.ticks >= 1 /\ run.hooked
    /\ Len(recording) >= 1
    /\ tickWraps = 1

\* C17: on every host tick that goes through the hook the original tick
\* runs exactly once and first, its caller observes the result the original
\* returned, and the recorder callback runs before the player callback.
C17_OriginalTickUnchanged ==
    (lastOp.op = "tick" /\ tickWraps = 1) =>
        /\ tickLog.calls[1] = "originalTick"
        /\ \A i \in 2..Len(tickLog.calls) : tickLog.calls[i] # "originalTick"
        /\ tickLog.observed = tickLog.original
        /\ \A i, j \in 1..Len(tickLog.calls) :
              (tickLog.calls[i] = "recordFrame" /\ tickLog.calls[j] = "playbackFrame")
                  => i < j

\* C18: a call of _hookGameTick made while the host tick entry point does not
\* exist returns false, leaves the hook flag false and the host's tick
\* unwrapped; a call made once the entry point exists installs the hook.
C18_UnavailableEntryPointReportsFalse ==
    [][(lastOp'.op = "hookGameTick") =>
          IF ~VvDefined
          THEN /\ lastOp'.arg = <<"false">>
               /\ ~tickHooked'
               /\ tickWraps' = tickWraps
          ELSE /\ tickHooked'
               /\ tickWraps' = 1]_vars

\* the operations that put the session in Recording or Playing mode
StartOps == {"startRecording", "startPlayback"}

C24_CallbacksNoOpWhenIdle ==
    [][/\ (lastOp'.op \in {"recordFrame", "tick"} /\ ~isRecording)
            => UNCHANGED <<recording, frameCount>>
       /\ (lastOp'.op \in {"playbackFrame", "tick"} /\ ~isPlaying)
            => UNCHANGED <<playbackIndex, isPlaying, isRecording, Ob>>
       /\ (lastOp'.op = "playbackFrame" /\ ~isPlaying)
            => lastOp'.arg = <<FALSE>>]_vars

\* recordFrame() was called on a session that has stopped recording and holds
\* a recorded sequence
C24_Witness ==
    /\ lastOp.op = "recordFrame"
    /\ ~isRecording
    /\ Len(recording) > 0
    /\ frameCount > 0

\* C25: a host tick on a Playing session leaves the length and the records
\* of the session sequence as they were, also after a startRecording() made
\* during the playback.
C25_PlayingSequenceFixed ==
    [][(lastOp'.op = "tick" /\ isPlaying) => UNCHANGED recording]_vars

\* C26: startPlayback() with no argument, called after stopRecording() has
\* returned N >= 1 records, starts a playback of exactly those records from
\* the first one, and every tick of it applies the next of them; called on an
\* empty session sequence it is refused and changes no state.
C26_RecordThenReplay ==
    [][/\ (/\ lastOp.op = "stopRecording" /\ Len(lastOp.arg) >= 1
           /\ lastOp'.op = "startPlayback" /\ lastOp'.how = "none")
            => (/\ lastOp'.ok
                /\ isPlaying'
                /\ playbackIndex' = 0
                /\ recording' = lastOp.arg
                /\ run'.seq = lastOp.arg)
       /\ (/\ lastOp'.op = "tick" /\ run'.kind = "play" /\ run'.hooked
           /\ run'.ticks <= Len(run'.seq))
            => tickApplied' = <<run'.seq[run'.ticks]>>
       /\ (/\ lastOp'.op = "startPlayback" /\ lastOp'.how = "none"
           /\ recording = <<>>)
            => (/\ ~lastOp'.ok
                /\ UNCHANGED <<sessionVars, Ob, tickHooked, tickWraps>>)]_vars

\* the operations that put another list in place of the session sequence
Replacers == {"importRecording", "startRecording", "startPlayback"}

\* C31: the cursor is never negative; a tick applies a record only when the
\* cursor is below the length of the sequence, and then the record under the
\* cursor; a successful startPlayback puts the cursor at 0, and no step that
\* keeps the sequence in place takes the cursor of a Playing session past
\* the length; a tick or playbackFrame() that finds the cursor at or past the
\* length, as after importRecording installed a shorter sequence, ends the
\* playback and applies nothing.
C31_CursorInsideSequence ==
    [][/\ playbackIndex' >= 0
       /\ (lastOp'.op = "tick" /\ tickApplied' # <<>>) =>
             /\ playbackIndex < Len(recording')
             /\ tickApplied' = <<recording'[playbackIndex + 1]>>
       /\ (lastOp'.op = "startPlayback" /\ lastOp'.ok) =>
             (isPlaying' /\ playbackIndex' = 0)
       /\ (/\ lastOp'.op \notin Replacers
           /\ isPlaying /\ playbackIndex <= Len(recording) /\ isPlaying')
             => playbackIndex' <= Len(recording')
       /\ (/\ lastOp'.op = "tick" /\ tickWraps = 1
           /\ isPlaying /\ playbackIndex >= Len(recording'))
             => (~isPlaying' /\ tickApplied' = <<>>)
       /\ (/\ lastOp'.op = "playbackFrame"
           /\ isPlaying /\ playbackIndex >= Len(recording))
             => ~isPlaying']_vars

\* importRecording has put a sequence shorter than the cursor in place during
\* a playback
C31_Witness ==
    /\ lastOp.op = "importRecording"
    /\ lastOp.ok
    /\ isPlaying
    /\ tickWraps = 1
    /\ playbackIndex > Len(recording)

\* the sequence is no longer than the frame counter and its frame values
\* are strictly increasing and below the counter
RecorderInv ==
    /\ Len(recording) <= frameCount
    /\ \A i \in 1..Len(recording) : recording[i].frame < frameCount
    /\ \A i, j \in 1..Len(recording) :
           i < j => recording[i].frame < recording[j].frame

C36_StopRecordingFrame ==
    [][lastOp'.op = "stopRecording" =>
          /\ ~isRecording'
          /\ UNCHANGED <<recording, frameCount, isPlaying, playbackIndex, Ob>>
          /\ UNCHANGED <<inputManager, keyboardHandler, tickHooked, tickWraps>>]_vars

\* stopRecording() was called in the middle of a playback that holds keys
C36_Witness ==
    /\ lastOp.op = "stopRecording"
    /\ isPlaying
    /\ playbackIndex > 0
    /\ Ob # {}

\* C21: startRecording() leaves the sequence empty, the frame counter 0 and
\* the recording flag true, and the first record of the recording it starts
\* has frame value 0.
C21_StartRecordingRestarts ==
    /\ lastOp.op = "startRecording" =>
          (recording = <<>> /\ frameCount = 0 /\ isRecording)
    /\ (run.kind = "rec" /\ Len(recording) >= 1) => recording[1].frame = 0

\* the records still ahead of the cursor
Remaining == Len(recording) - playbackIndex

\* C11: playback terminates by itself: every host tick run through the hook
\* while Playing either ends playback or leaves fewer records ahead of the
\* cursor than before, so that Playing cannot last, whatever other calls
\* (startRecording included) came before the tick.
C11_TickBringsEndCloser ==
    [][(isPlaying /\ tickHooked /\ lastOp'.op = "tick")
           => (~isPlaying' \/ Len(recording') - playbackIndex' < Remaining)]_vars

-----------------------------------------------------------------------------
(* Properties of the input adapter, checked under SpecAdapter.             *)

\* C7: after setInputState(v) on a bound adapter, under the host's documented
\* key mapping, each slot is asserted in the host exactly when its flag in v
\* is true, whatever keys were held before the call.
C7_VectorAppliedExactly ==
    (lastOp.op = "setInputState" /\ keyboardHandler /\ Ea = DefaultEa) =>
        \A d \in Slots : SlotAsserted(Ob, d) <=> Flag(lastOp.arg[1], d)

\* the host exposes a mapping with at least one key for slot d
Exposed(d) == Ea[d].has /\ Len(Ea[d].keys) > 0

\* C27: on a bound adapter, every key that pressDirection(d), or
\* setInputState for a slot d set in its vector, newly presses, and every key
\* that releaseDirection(d) releases, is one of the keys of the host's live
\* mapping for d whenever the host exposes one, for all six slots.
C27_KeysFromLiveMapping ==
    [][keyboardHandler =>
          /\ (lastOp'.op = "setInputState") =>
                \A k \in Ob' \ Ob : \E d \in Slots :
                    /\ Flag(lastOp'.arg[1], d)
                    /\ Exposed(d) => k \in Range(Ea[d].keys)
          /\ (lastOp'.op = "pressDirection" /\ Exposed(lastOp'.arg[1])) =>
                Ob' \ Ob \subseteq Range(Ea[lastOp'.arg[1]].keys)
          /\ (lastOp'.op = "releaseDirection" /\ Exposed(lastOp'.arg[1])) =>
                Ob \ Ob' \subseteq Range(Ea[lastOp'.arg[1]].keys)]_vars

\* C28: pressDirection(d) and releaseDirection(d) for a slot d whose host
\* mapping is empty or missing leave the host's key state as it was.
C28_UnmappedSlotDoesNothing ==
    [][(lastOp'.op \in {"pressDirection", "releaseDirection"}
        /\ ~Exposed(lastOp'.arg[1]))
           => Ob' = Ob]_vars

\* the last call was a press operation on slot d
PressedBy(d) ==
    \/ lastOp.op \in {"pressDirection", "pressShortcut"} /\ lastOp.arg = <<d>>
    \/ lastOp.op = "setInputState" /\ Flag(lastOp.arg[1], d)

\* the keys the press operations of the API press for slot d
PressKeysOf(d) ==
    pressSlot({}, d) \cup (IF variant = "event" THEN {} ELSE pressDirection({}, d))

\* C34: on a bound adapter, for each slot d: when d is asserted after a
\* press operation on it (its shortcut, pressDirection(d), or setInputState
\* with d set), by keys that these operations press, the slot's release
\* shortcut and releaseDirection(d) each leave d not asserted in the host.
C34_ReleaseUndoesPress ==
    [][\A d \in Slots :
          (/\ keyboardHandler
           /\ PressedBy(d)
           /\ SlotAsserted(Ob, d)
           /\ Ob \cap HostSlotKeys(d) \subseteq PressKeysOf(d)
           /\ lastOp'.op \in {"releaseDirection", "releaseShortcut"}
           /\ lastOp'.arg = <<d>>)
             => ~SlotAsserted(Ob', d)]_vars

\* C22: while the adapter is not bound to a host, no adapter operation
\* changes the host's pressed keys or the session state.
C22_UnboundAdapterDoesNothing ==
    [][~keyboardHandler => UNCHANGED <<Ob, sessionVars>>]_vars

\* C8: setInputState(v) made twice in a row leaves the host's keys as the
\* first call left them.
C8_SetInputStateIdempotent ==
    [][(lastOp.op = "setInputState" /\ lastOp'.op = "setInputState"
        /\ lastOp'.arg = lastOp.arg)
           => Ob' = Ob]_vars

C8_Witness ==
    /\ lastOp.op = "setInputState" /\ lastOp.how = "again"
    /\ Ob # {}
    /\ lastOp.arg[1].left /\ ~lastOp.arg[1].right

-----------------------------------------------------------------------------
(* Properties of the builder, checked under SpecBuilder.                   *)

\* the sum of the frame counts of the calls from the i-th on
RECURSIVE ChainFrames(_, _)
ChainFrames(c, i) == IF i > Len(c) THEN 0 ELSE c[i].n + ChainFrames(c, i + 1)

\* the call, from the i-th on, that produced the record at position p
RECURSIVE Producer(_, _, _)
Producer(c, i, p) ==
    IF p <= c[i].n THEN c[i] ELSE Producer(c, i + 1, p - c[i].n)

\* C12: build() yields as many records as the hold / wait calls asked for,
\* their frame fields 0, 1, ... in order; a record made by hold(d, n) has
\* slot d true and the other slots false, a record made by wait has all six
\* false.
C12_BuilderResult ==
    lastOp.op = "build" =>
        /\ Len(held.val) = ChainFrames(chain, 1)
        /\ \A p \in 1..Len(held.val) :
              /\ DOMAIN held.val[p] = DOMAIN waitState(0)
              /\ held.val[p].frame = p - 1
              /\ \A e \in Slots :
                    Flag(held.val[p], e) <=>
                        (Producer(chain, 1, p).op = "hold" /\ Producer(chain, 1, p).d = e)

C12_Witness ==
    /\ lastOp.op = "build"
    /\ chain = << [op |-> "hold", d |-> DIRECTION["LEFT"], n |-> 2],
                  [op |-> "hold", d |-> DIRECTION["ACTION"], n |-> 1] >>
    /\ Len(held.val) = 3
    /\ held.val[3].action /\ ~held.val[3].left

\* C13: a list handed out by build() or play() is final: whatever hold / wait
\* calls follow on the same builder, the list holds what it held when it was
\* returned, and so does the sequence a session started by play() is playing.
C13_BuiltSequenceIsFinal ==
    held.from \in {"build", "play"} =>
        /\ heap[held.ref] = held.val
        /\ (held.from = "play" /\ isPlaying) => recording = held.val

\* C35: the builder shortcut of slot d called with a count n >= 0 leaves the
\* builder's list and frame counter as hold(d, n) would; with n = 0 it
\* appends no record.
C35_ShortcutIsHold ==
    [][lastOp'.op = "shortcut" =>
          LET d == lastOp'.arg[1]
              n == lastOp'.arg[2]
          IN  /\ heap'[builderSeq] = hold(d, n).seq
              /\ currentFrame' = hold(d, n).currentFrame
              /\ n = 0 => heap'[builderSeq] = heap[builderSeq]]_vars

-----------------------------------------------------------------------------
(* Properties of importRecording, checked under SpecImport.                *)

\* C15: whenever importRecording returns false (the copies that report a
\* result), the stored sequence, the recording and playing flags and the
\* cursor are what they were before the call, also for a text that parses
\* as JSON but is no list, such as null.
C15_FailedImportChangesNothing ==
    [][(lastOp'.op = "importRecording" /\ ~lastOp'.ok /\ variant # "legacy")
           => UNCHANGED <<recording, isRecording, isPlaying, playbackIndex>>]_vars

\* C23: no host tick raises an exception to the host, whatever value a
\* successful or failed importRecording left as the session sequence.
C23_TickNeverThrows == lastOp.how # "throws"

-----------------------------------------------------------------------------
(* Properties of returned lists, checked under SpecSnapshot.               *)

\* C20: a list returned by stopRecording() or getRecording() keeps the length
\* and the records it had when it was returned, whatever ticks, startRecording,
\* import or playback come later.
C20_ReturnedListNeverChanges ==
    held.from \in {"stopRecording", "getRecording"} => heap[held.ref] = held.val


-----------------------------------------------------------------------------
(* Properties of timed taps, checked under SpecTimers.                     *)

\* the start and stop calls of the session
SessionCalls == {"startRecording", "stopRecording", "startPlayback", "stopPlayback"}

\* C29: every tap is eventually followed by its timer running the release of
\* the same slot or key, after which that slot or key is not asserted; and no
\* start or stop call of the session changes the pending releases.
C29_TapsAlwaysReleased ==
    /\ \A t \in Pending :
          (lastOp.op = "tap" /\ lastOp.arg = <<t>>)
              ~> (lastOp.op = "timer" /\ lastOp.arg = <<t>>)
    /\ [][/\ (lastOp'.op \in SessionCalls) => timers' = timers
          /\ (lastOp'.op = "timer") =>
                IF lastOp'.arg[1].op = "releaseDirection"
                THEN ~SlotAsserted(Ob', lastOp'.arg[1].arg)
                ELSE lastOp'.arg[1].arg \notin Ob']_vars

\* a release is still pending right after stopPlayback() was called
C29_Witness ==
    /\ lastOp.op = "stopPlayback"
    /\ \E t \in Pending : timers[t] > 0 /\ t.arg \in {DIRECTION["ACTION"], EventKEYS.ENTER}


-----------------------------------------------------------------------------
(* Properties of taps during a playback, checked under SpecPlayTaps.       *)

\* C33: a timer callback that runs between two ticks of a playback leaves
\* every slot that the record applied at the earlier tick asserts as it was.
C33_TimersLeavePlaybackVector ==
    [][(lastOp'.op = "timer" /\ isPlaying /\ playbackIndex > 0
        /\ playbackIndex <= Len(recording)) =>
          \A d \in Slots :
             Flag(recording[playbackIndex], d) =>
                 (SlotAsserted(Ob', d) <=> SlotAsserted(Ob, d))]_vars


-----------------------------------------------------------------------------
(* Properties of the service worker, checked under SpecWorker.             *)

\* C30: the messages of one 'cache-resources' request are one cache-progress
\* per manifest resource, in manifest order, then one cache-complete, and a
\* request that has finished has sent them all; in every message cached +
\* failed is the number of resources processed so far, neither counter ever
\* decreases, and in cache-complete cached + failed = total.
C30_ProgressConsistent ==
    LET s == worker.sent
        total == Len(GAME_RESOURCES)
    IN  /\ Len(s) <= total + 1
        /\ \A j \in 1..Len(s) :
              /\ s[j].type = (IF j <= total THEN "cache-progress"
                              ELSE "cache-complete")
              /\ s[j].cached + s[j].failed = (IF j <= total THEN j ELSE total)
              /\ s[j].total = total
              /\ j <= total => worker.log[j].resource = GAME_RESOURCES[j]
        /\ \A j \in 1..(Len(s) - 1) :
              /\ s[j].cached <= s[j + 1].cached
              /\ s[j].failed <= s[j + 1].failed
        /\ worker.pc \in {"done", "rejected"} => Len(s) = total + 1


\* the resources the request counted as cached
Counted ==
    {worker.log[j].resource :
        j \in {i \in 1..Len(worker.log) : worker.log[i].outcome = "stored"}}

\* C37: at the moment cacheResources posts cache-complete with cached = k,
\* whatever 'clear-cache' requests were handled meanwhile, the cache storage
\* has a cache named CACHE_NAME and it holds the k resources counted.
C37_CompleteMatchesCache ==
    lastOp.op = "cacheComplete" =>
        /\ worker.sent[Len(worker.sent)].cached = Cardinality(Counted)
        /\ caches.map[CACHE_NAME] # 0
        /\ Counted \subseteq caches.objs[caches.map[CACHE_NAME]]

\* C38: once the activate handler has completed, no cache found by its
\* caches.keys() whose name starts with 'kitsune-' and is not CACHE_NAME is
\* left in the storage; and no step of the handler removes or changes the
\* cache named CACHE_NAME, a cache without the prefix, or the contents of
\* any cache object.
C38_ActivateCleansStale ==
    /\ [](worker.act = "activated" =>
            \A n \in CacheNames :
               (startsWith(n, "kitsune-") /\ n # CACHE_NAME) => caches.map[n] = 0)
    /\ [][lastOp'.op = "activate" =>
            /\ caches'.objs = caches.objs
            /\ \A n \in CacheNames :
                  (n = CACHE_NAME \/ ~startsWith(n, "kitsune-")) =>
                      caches'.map[n] = caches.map[n]]_vars

\* the handler completed after finding the current cache, a stale one and a
\* foreign one: the stale one is gone, the other two are still there
C38_Witness ==
    /\ worker.act = "activated"
    /\ worker.names = CacheNames
    /\ caches.map[OldCacheName] = 0
    /\ caches.map[CACHE_NAME] # 0
    /\ caches.map[OtherCacheName] # 0

-----------------------------------------------------------------------------
(* Properties of the auto-initialisation, checked under SpecAutoInit.      *)

\* C39: tryInit(10) calls init() at most 11 times; once a call has succeeded,
\* or the call with no attempt left has failed, no further call is pending;
\* tryInit calls _hookGameTick() only with a successful init(), at most once,
\* and the host's tick function is never inside more than one wrapper.
C39_AutoInitTerminates ==
    /\ [](/\ boot.inits <= InitAttempts + 1
          /\ boot.pending => boot.inits + boot.attempts = InitAttempts
          /\ boot.ok => ~boot.pending
          /\ (boot.inits = InitAttempts + 1) => ~boot.pending
          /\ boot.hooks <= 1
          /\ boot.hooks = 1 => boot.ok
          /\ tickWraps <= 1)
    /\ [][lastOp'.op = "tryInit" =>
            /\ boot.pending /\ boot'.inits = boot.inits + 1
            /\ lastOp'.ok => ~boot'.pending
            /\ boot'.hooks > boot.hooks => lastOp'.ok
            /\ tickWraps' > tickWraps => lastOp'.ok]_vars

\* every attempt was used and failed: eleven calls of init(), none pending
C39_Witness ==
    /\ boot.inits = InitAttempts + 1
    /\ ~boot.ok
    /\ ~boot.pending
    /\ lastOp.op = "tryInit"

====
